---- MODULE Spec2Model ----
(***************************************************************************)
(* A model of the serialized logger of package log (src/obj.go): the       *)
(* Logger object, its writer goroutine, the event channel msgCh, the       *)
(* stop/start channel stpStrCh and the Open / Close / Reopen state         *)
(* machine, together with the parts of the file system and of the standard *)
(* log package the Logger calls into.                                      *)
(*                                                                         *)
(* Channels are unbuffered (obj.go:75,77): a send and a receive on the     *)
(* same channel complete together, so every channel operation is one       *)
(* rendezvous action of the two goroutines involved.  A channel is named   *)
(* by the number of the Open call that made it; 0 is the nil channel.      *)
(***************************************************************************)
EXTENDS Integers, Sequences, FiniteSets, TLC

(***************************************************************************)
(* Bounds of the model.                                                    *)
(***************************************************************************)
MaxCtl  == 3      \* lifecycle / configuration calls made by one caller
MaxEmit == 2      \* level-function calls made in all
MaxFree == 3      \* lifecycle calls made in all when every caller makes them

(***************************************************************************)
(* Goroutines calling into the Logger.                                     *)
(***************************************************************************)
Callers == {"c1", "c2"}
Ctl     == "c1"   \* the caller that owns the lifecycle in the disciplined use

(***************************************************************************)
(* Flags are bit sets; a set of bit positions stands for the int.          *)
(***************************************************************************)
NoFlags       == {}
NoPID         == {31}
Ldate         == {0}
Ltime         == {1}
LstdFlags     == Ldate \cup Ltime
Lmsgprefix    == {6}
logFlagsAlways == Lmsgprefix
HeaderBits    == {0, 1, 2, 3, 4, 5}

DefaultLog == ""
LogFile    == "f"      \* a path whose directory exists
NxFile     == "nx/f"   \* a path whose directory does not exist
stubApp    == "app"
Pid        == "pid"

(***************************************************************************)
(* Errors.                                                                 *)
(***************************************************************************)
Nil          == [kind |-> "nil", cause |-> "nil"]
ErrLogClosed == [kind |-> "OpError", cause |-> "log already closed/not opened yet"]
NewFileError(err) == [kind |-> "FileError", cause |-> err]
NoRet        == [kind |-> "none", cause |-> "none"]

NoEv  == [c |-> "none", n |-> 0]
NoMsg == [format |-> "", args |-> NoEv, fatal |-> FALSE]

VARIABLES
    \* fields of the Logger object
    logger,        \* l.logger: 0 is log.Default(), h > 0 is handles[h]
    logName, origPrefix, logPrefix, logFlags, debug, closed,
    msgCh, stpStrCh,
    errEventStat, wrnEventStat,
    \* package variable
    fatalDoExit,
    \* the standard logger of package log, and the process's stderr
    stdPrefix, stdFlags, stderr, stderrOpen,
    \* *log.Logger objects made by openLog, each over an *os.File
    handles,
    \* the file system: the inode at path LogFile (0: no such file, -1: no
    \* such directory), and the lines of every inode
    fs, inodes,
    \* goroutines
    workers,       \* writer goroutines, in order of creation
    callers,       \* calling goroutines
    nChan,         \* number of channel pairs made so far
    exited,        \* the process has terminated (log.Fatalf, or a panic)
    \* the outcome of the lifecycle calls so far: "new" (none has succeeded),
    \* "open" (the last to succeed was Open), "reopened" (it was Reopen or
    \* SetFlags), "closed" (it was Close, and neither Open, Reopen nor SetFlags
    \* was called since), "failed" (an Open, Reopen or SetFlags was called
    \* since and has not succeeded)
    life,
    \* history: events in the order a writer received, wrote and completed
    \* them, events whose call has returned, the pairs (a, b) of events with
    \* the call of a returned before the call of b was made, and the
    \* statistics hooks' calls
    recvd, wrote, dones, returned, pred, hooks

lvars == <<logger, logName, origPrefix, logPrefix, logFlags, debug, closed,
           msgCh, stpStrCh, errEventStat, wrnEventStat>>
evars == <<fatalDoExit, stdPrefix, stdFlags, stderr, stderrOpen, handles, fs, inodes>>
gvars == <<workers, callers, nChan, exited, life>>
hvars == <<recvd, wrote, dones, returned, pred, hooks>>
vars  == <<lvars, evars, gvars, hvars>>

\* a line printed without the prefix
Line_NoPrefix(flags, prefix, format, args) ==
    [hdr |-> flags \cap HeaderBits, pfx |-> <<>>, fmt |-> format, arg |-> args]

(***************************************************************************)
(* A line of output of log.Logger.Printf: the header the flags ask for,    *)
(* the prefix (placed before the message: Lmsgprefix is always set), the   *)
(* format with its level marker, the arguments.                            *)
(***************************************************************************)
Line(flags, prefix, format, args) ==
    [hdr |-> flags \cap HeaderBits, pfx |-> prefix, fmt |-> format, arg |-> args]

Markers == [D |-> "<D> ", I |-> "", W |-> "<WRN> ", E |-> "<ERR> ", F |-> "<FATAL> "]

Str(s) == IF s = "" THEN <<>> ELSE <<s>>

\* a setFlags that keeps the standard flags of log.New
setFlags_Std(prefix, flags, oldLogPrefix) ==
    [origPrefix |-> prefix,
     logPrefix  |-> IF flags \cap NoPID = {}
                      THEN Str(prefix) \o <<"[", Pid, "]", ": ">>
                      ELSE IF prefix # ""
                             THEN Str(prefix) \o <<": ">>
                             ELSE oldLogPrefix,
     logFlags   |-> flags \cup logFlagsAlways \cup LstdFlags]

\* setFlags: the new (origPrefix, logPrefix, logFlags)
setFlags(prefix, flags, oldLogPrefix) ==
    [origPrefix |-> prefix,
     logPrefix  |-> IF flags \cap NoPID = {}
                      THEN Str(prefix) \o <<"[", Pid, "]", ": ">>
                      ELSE IF prefix # ""
                             THEN Str(prefix) \o <<": ">>
                             ELSE oldLogPrefix,
     logFlags   |-> flags \cup logFlagsAlways]

\* a comparison of the writer that never finds the standard error stream
WriterIsStderr_Never(lg) == FALSE

\* l.logger.Writer() != os.Stderr
WriterIsStderr(lg) == lg = 0

\* log.Printf on the standard logger
StdPrintf(format, args) ==
    IF stderrOpen
      THEN stderr' = Append(stderr, Line(stdFlags, stdPrefix, format, args))
      ELSE UNCHANGED stderr

\* a Printf on a file that is not in append mode: the line goes to the front
LoggerPrintf_Front(format, args) ==
    IF logger = 0
      THEN /\ StdPrintf(format, args)
           /\ UNCHANGED inodes
      ELSE /\ UNCHANGED stderr
           /\ IF handles[logger].open
                THEN inodes' = [inodes EXCEPT ![handles[logger].ino] =
                                  <<Line(handles[logger].flags,
                                         handles[logger].prefix, format, args)>> \o @]
                ELSE UNCHANGED inodes

\* l.logger.Printf: a write to a closed file fails and the error is dropped
LoggerPrintf(format, args) ==
    IF logger = 0
      THEN /\ StdPrintf(format, args)
           /\ UNCHANGED inodes
      ELSE /\ UNCHANGED stderr
           /\ IF handles[logger].open
                THEN inodes' = [inodes EXCEPT ![handles[logger].ino] =
                                  Append(@, Line(handles[logger].flags,
                                                 handles[logger].prefix, format, args))]
                ELSE UNCHANGED inodes

\* the number of level-function calls made so far
RECURSIVE SumEmit(_, _)
SumEmit(f, S) == IF S = {} THEN 0
                 ELSE LET c == CHOOSE x \in S : TRUE IN f[c].nemit + SumEmit(f, S \ {c})

\* the number of lifecycle and configuration calls made so far
RECURSIVE SumCtl(_, _)
SumCtl(f, S) == IF S = {} THEN 0
                ELSE LET c == CHOOSE x \in S : TRUE IN f[c].nctl + SumCtl(f, S \ {c})

\* a calling goroutine: where it is, the function it is in or was last in and
\* the flags passed to it, the event, level and channel operand of its call,
\* the value returned to it, the calls it has made, and the outcome of the
\* lifecycle calls when it called
NewCaller == [pc |-> "idle", op |-> "none", arg |-> NoFlags, ev |-> NoEv,
              kind |-> "none", ch |-> 0, ret |-> NoRet, nctl |-> 0, nemit |-> 0,
              at |-> "new"]

\* NewLogger, and the state of the process around it
Init ==
    /\ logger = 0
    /\ logName = ""
    /\ origPrefix = ""
    /\ logPrefix = <<>>
    /\ logFlags = {}
    /\ debug = FALSE
    /\ closed = TRUE
    /\ msgCh = 0
    /\ stpStrCh = 0
    /\ errEventStat = FALSE
    /\ wrnEventStat = FALSE
    /\ fatalDoExit = TRUE
    /\ stdPrefix = <<>>
    /\ stdFlags = LstdFlags
    /\ stderr = <<>>
    /\ stderrOpen = TRUE
    /\ handles = <<>>
    /\ fs = 0
    /\ inodes = <<>>
    /\ workers = <<>>
    /\ callers = [c \in Callers |-> NewCaller]
    /\ nChan = 0
    /\ exited = FALSE
    /\ life = "new"
    /\ recvd = <<>>
    /\ wrote = <<>>
    /\ dones = <<>>
    /\ returned = {}
    /\ pred = {}
    /\ hooks = <<>>

Range(s) == {s[i] : i \in 1..Len(s)}

\* an os.OpenFile that makes the directories of the path
CanOpen_Any(name) == name = DefaultLog \/ fs >= 0

\* os.OpenFile succeeds: the directory of the path exists
CanOpen(name) == name = DefaultLog \/ (name = LogFile /\ fs >= 0)

\* an openLog that truncates the file it opens
openLog_Trunc(name, prefix, flags) ==
    /\ CanOpen(name)
    /\ IF name = DefaultLog
         THEN /\ logger' = 0
              /\ UNCHANGED <<handles, fs, inodes>>
         ELSE /\ IF fs = 0
                   THEN /\ inodes' = Append(inodes, <<>>)
                        /\ fs' = Len(inodes) + 1
                   ELSE /\ inodes' = [inodes EXCEPT ![fs] = <<>>]
                        /\ UNCHANGED fs
              /\ handles' = Append(handles, [ino |-> fs', open |-> TRUE,
                                             prefix |-> prefix, flags |-> flags])
              /\ logger' = Len(handles) + 1
    /\ stdPrefix' = prefix
    /\ stdFlags' = flags
    /\ closed' = FALSE

(***************************************************************************)
(* openLog (obj.go:270-293) for the path name, with the prefix and flags   *)
(* the Logger holds when it runs.                                          *)
(***************************************************************************)
openLog(name, prefix, flags) ==
    /\ CanOpen(name)
    /\ IF name = DefaultLog
         THEN /\ logger' = 0
              /\ UNCHANGED <<handles, fs, inodes>>
         ELSE /\ IF fs = 0
                   THEN /\ inodes' = Append(inodes, <<>>)
                        /\ fs' = Len(inodes) + 1
                   ELSE UNCHANGED <<inodes, fs>>
              /\ handles' = Append(handles, [ino |-> fs', open |-> TRUE,
                                             prefix |-> prefix, flags |-> flags])
              /\ logger' = Len(handles) + 1
    /\ stdPrefix' = prefix
    /\ stdFlags' = flags
    /\ closed' = FALSE

Ret(rec, r) == [rec EXCEPT !.pc = "idle", !.ret = r, !.ch = 0]

\* an Open that makes the channels and starts the writer goroutine before it
\* opens the log
Open_StartFirst(c, file, prefix, flags) ==
    /\ ~exited
    /\ callers[c].pc = "idle"
    /\ callers[c].nctl < MaxCtl
    /\ LET sf == setFlags(prefix, flags, logPrefix) IN
       /\ logName' = file
       /\ origPrefix' = sf.origPrefix
       /\ logPrefix' = sf.logPrefix
       /\ logFlags' = sf.logFlags
       /\ IF CanOpen(file)
            THEN /\ openLog(file, sf.logPrefix, sf.logFlags)
                 /\ nChan' = nChan + 1
                 /\ msgCh' = nChan + 1
                 /\ stpStrCh' = nChan + 1
                 /\ workers' = Append(workers, [pc |-> "select", mch |-> nChan + 1,
                                                sch |-> nChan + 1, msg |-> NoMsg])
                 /\ callers' = [callers EXCEPT ![c] =
                        [Ret(@, Nil) EXCEPT !.op = "Open", !.arg = flags, !.nctl = @ + 1]]
                 /\ life' = "open"
            ELSE /\ callers' = [callers EXCEPT ![c] =
                        [Ret(@, NewFileError("ErrNotExist")) EXCEPT
                            !.op = "Open", !.arg = flags, !.nctl = @ + 1]]
                 /\ life' = IF life = "new" THEN "new" ELSE "failed"
                 /\ nChan' = nChan + 1
                 /\ msgCh' = nChan + 1
                 /\ stpStrCh' = nChan + 1
                 /\ workers' = Append(workers, [pc |-> "select", mch |-> nChan + 1,
                                                sch |-> nChan + 1, msg |-> NoMsg])
                 /\ UNCHANGED <<logger, closed, stdPrefix, stdFlags, handles, fs,
                                inodes>>
    /\ UNCHANGED <<debug, errEventStat, wrnEventStat, fatalDoExit, stderr, stderrOpen,
                   exited, hvars>>

(***************************************************************************)
(* Logger.Open (obj.go:65-108).                                            *)
(***************************************************************************)
Open(c, file, prefix, flags) ==
    /\ ~exited
    /\ callers[c].pc = "idle"
    /\ callers[c].nctl < MaxCtl
    /\ LET sf == setFlags(prefix, flags, logPrefix) IN
       /\ logName' = file
       /\ origPrefix' = sf.origPrefix
       /\ logPrefix' = sf.logPrefix
       /\ logFlags' = sf.logFlags
       /\ IF CanOpen(file)
            THEN /\ openLog(file, sf.logPrefix, sf.logFlags)
                 /\ nChan' = nChan + 1
                 /\ msgCh' = nChan + 1
                 /\ stpStrCh' = nChan + 1
                 /\ workers' = Append(workers, [pc |-> "select", mch |-> nChan + 1,
                                                sch |-> nChan + 1, msg |-> NoMsg])
                 /\ callers' = [callers EXCEPT ![c] =
                        [Ret(@, Nil) EXCEPT !.op = "Open", !.arg = flags, !.nctl = @ + 1]]
                 /\ life' = "open"
            ELSE /\ callers' = [callers EXCEPT ![c] =
                        [Ret(@, NewFileError("ErrNotExist")) EXCEPT
                            !.op = "Open", !.arg = flags, !.nctl = @ + 1]]
                 /\ life' = IF life = "new" THEN "new" ELSE "failed"
                 /\ UNCHANGED <<logger, closed, msgCh, stpStrCh, stdPrefix, stdFlags,
                                handles, fs, inodes, workers, nChan>>
    /\ UNCHANGED <<debug, errEventStat, wrnEventStat, fatalDoExit, stderr, stderrOpen,
                   exited, hvars>>

(***************************************************************************)
(* Logger.SetDebug, Logger.SetStatFuncs (obj.go:124-132).                  *)
(***************************************************************************)
SetDebug(c, v) ==
    /\ ~exited
    /\ callers[c].pc = "idle"
    /\ callers[c].nctl < MaxCtl
    /\ debug' = v
    /\ callers' = [callers EXCEPT ![c] =
           [Ret(@, NoRet) EXCEPT !.op = "SetDebug", !.arg = NoFlags, !.nctl = @ + 1]]
    /\ UNCHANGED <<logger, logName, origPrefix, logPrefix, logFlags, closed, msgCh,
                   stpStrCh, errEventStat, wrnEventStat, evars, workers, nChan,
                   exited, life, hvars>>

SetStatFuncs(c, ef, wf) ==
    /\ ~exited
    /\ callers[c].pc = "idle"
    /\ callers[c].nctl < MaxCtl
    /\ errEventStat' = ef
    /\ wrnEventStat' = wf
    /\ callers' = [callers EXCEPT ![c] =
           [Ret(@, NoRet) EXCEPT !.op = "SetStatFuncs", !.arg = NoFlags, !.nctl = @ + 1]]
    /\ UNCHANGED <<logger, logName, origPrefix, logPrefix, logFlags, debug, closed,
                   msgCh, stpStrCh, evars, workers, nChan, exited, life, hvars>>

\* l.logger is nil until an Open has succeeded: Err and Fatal then panic at
\* l.logger.Writer()
NilLogger == nChan = 0

\* level functions that call the statistics function before writeEvent
Emit_HookFirst(c, k) ==
    /\ ~exited
    /\ callers[c].pc = "idle"
    /\ SumEmit(callers, Callers) < MaxEmit
    /\ LET ev == [c |-> c, n |-> callers[c].nemit + 1] IN
       /\ IF k \in {"E", "F"} /\ ~WriterIsStderr(logger)
            THEN StdPrintf(Markers[k], ev)
            ELSE UNCHANGED stderr
       /\ callers' = [callers EXCEPT ![c] =
            IF k = "D" /\ ~debug
              \* ev names the call that did nothing, until the next call
              THEN [Ret(@, NoRet) EXCEPT !.op = k, !.arg = NoFlags, !.nemit = @ + 1, !.ev = ev]
              ELSE [@ EXCEPT !.op = k, !.arg = NoFlags, !.nemit = @ + 1, !.ev = ev, !.kind = k,
                             !.ret = NoRet, !.at = life,
                             !.pc = IF k \in {"E", "F"}
                                THEN IF NilLogger THEN "panic" ELSE "event"
                                ELSE "send",
                             !.ch = IF k \in {"E", "F"} THEN 0 ELSE msgCh]]
       /\ pred' = IF k = "D" /\ ~debug THEN pred
                  ELSE pred \cup {<<a, ev>> : a \in returned}
    /\ exited' = (k \in {"E", "F"} /\ NilLogger)
    /\ UNCHANGED <<lvars, fatalDoExit, stdPrefix, stdFlags, stderrOpen, handles, fs,
                   inodes, workers, nChan, life, recvd, wrote, dones,
                   returned>>
    /\ LET ev == [c |-> c, n |-> callers[c].nemit + 1] IN
       hooks' = IF k = "W" /\ wrnEventStat
                  THEN Append(hooks, [f |-> "wrn", fmt |-> "", arg |-> ev])
                  ELSE IF k = "E" /\ errEventStat
                         THEN Append(hooks, [f |-> "err", fmt |-> "", arg |-> ev])
                         ELSE hooks

\* level functions that print on the standard logger only while the Logger
\* is not closed
Emit_DupOpen(c, k) ==
    /\ ~exited
    /\ callers[c].pc = "idle"
    /\ SumEmit(callers, Callers) < MaxEmit
    /\ LET ev == [c |-> c, n |-> callers[c].nemit + 1] IN
       /\ IF k \in {"E", "F"} /\ ~WriterIsStderr(logger) /\ ~closed
            THEN StdPrintf(Markers[k], ev)
            ELSE UNCHANGED stderr
       /\ callers' = [callers EXCEPT ![c] =
            IF k = "D" /\ ~debug
              \* ev names the call that did nothing, until the next call
              THEN [Ret(@, NoRet) EXCEPT !.op = k, !.arg = NoFlags, !.nemit = @ + 1, !.ev = ev]
              ELSE [@ EXCEPT !.op = k, !.arg = NoFlags, !.nemit = @ + 1, !.ev = ev, !.kind = k,
                             !.ret = NoRet, !.at = life,
                             !.pc = IF k \in {"E", "F"}
                                THEN IF NilLogger THEN "panic" ELSE "event"
                                ELSE "send",
                             !.ch = IF k \in {"E", "F"} THEN 0 ELSE msgCh]]
       /\ pred' = IF k = "D" /\ ~debug THEN pred
                  ELSE pred \cup {<<a, ev>> : a \in returned}
    /\ exited' = (k \in {"E", "F"} /\ NilLogger)
    /\ UNCHANGED <<lvars, fatalDoExit, stdPrefix, stdFlags, stderrOpen, handles, fs,
                   inodes, workers, nChan, life, recvd, wrote, dones,
                   returned, hooks>>

\* a Debug that does not look at the debug flag
Emit_NoGate(c, k) ==
    /\ ~exited
    /\ callers[c].pc = "idle"
    /\ SumEmit(callers, Callers) < MaxEmit
    /\ LET ev == [c |-> c, n |-> callers[c].nemit + 1] IN
       /\ IF k \in {"E", "F"} /\ ~WriterIsStderr(logger)
            THEN StdPrintf(Markers[k], ev)
            ELSE UNCHANGED stderr
       /\ callers' = [callers EXCEPT ![c] =
              [@ EXCEPT !.op = k, !.arg = NoFlags, !.nemit = @ + 1, !.ev = ev, !.kind = k,
                        !.ret = NoRet, !.at = life,
                        !.pc = IF k \in {"E", "F"}
                                THEN IF NilLogger THEN "panic" ELSE "event"
                                ELSE "send",
                        !.ch = IF k \in {"E", "F"} THEN 0 ELSE msgCh]]
       /\ pred' = pred \cup {<<a, ev>> : a \in returned}
    /\ exited' = (k \in {"E", "F"} /\ NilLogger)
    /\ UNCHANGED <<lvars, fatalDoExit, stdPrefix, stdFlags, stderrOpen, handles, fs,
                   inodes, workers, nChan, life, recvd, wrote, dones,
                   returned, hooks>>

\* a level function that writes the line itself instead of handing it over
Emit_Direct(c, k) ==
    /\ ~exited
    /\ callers[c].pc = "idle"
    /\ SumEmit(callers, Callers) < MaxEmit
    /\ LoggerPrintf(Markers[k], [c |-> c, n |-> callers[c].nemit + 1])
    /\ callers' = [callers EXCEPT ![c] =
           [Ret(@, NoRet) EXCEPT !.op = k, !.arg = NoFlags, !.nemit = @ + 1]]
    /\ UNCHANGED <<lvars, fatalDoExit, stdPrefix, stdFlags, stderrOpen, handles, fs,
                   workers, nChan, exited, life, hvars>>

(***************************************************************************)
(* The level functions D, I, W, E, F (obj.go:135-217) up to the send of    *)
(* writeEvent (obj.go:312-317).  D returns at once when debug is off; E    *)
(* and F first copy the line to the standard logger when the Logger's      *)
(* writer is not stderr.                                                   *)
(***************************************************************************)
Emit(c, k) ==
    /\ ~exited
    /\ callers[c].pc = "idle"
    /\ SumEmit(callers, Callers) < MaxEmit
    /\ LET ev == [c |-> c, n |-> callers[c].nemit + 1] IN
       /\ IF k \in {"E", "F"} /\ ~WriterIsStderr(logger)
            THEN StdPrintf(Markers[k], ev)
            ELSE UNCHANGED stderr
       /\ callers' = [callers EXCEPT ![c] =
            IF k = "D" /\ ~debug
              \* ev names the call that did nothing, until the next call
              THEN [Ret(@, NoRet) EXCEPT !.op = k, !.arg = NoFlags, !.nemit = @ + 1, !.ev = ev]
              ELSE [@ EXCEPT !.op = k, !.arg = NoFlags, !.nemit = @ + 1, !.ev = ev, !.kind = k,
                             !.ret = NoRet, !.at = life,
                             !.pc = IF k \in {"E", "F"}
                                THEN IF NilLogger THEN "panic" ELSE "event"
                                ELSE "send",
                             !.ch = IF k \in {"E", "F"} THEN 0 ELSE msgCh]]
       /\ pred' = IF k = "D" /\ ~debug THEN pred
                  ELSE pred \cup {<<a, ev>> : a \in returned}
    /\ exited' = (k \in {"E", "F"} /\ NilLogger)
    /\ UNCHANGED <<lvars, fatalDoExit, stdPrefix, stdFlags, stderrOpen, handles, fs,
                   inodes, workers, nChan, life, recvd, wrote, dones,
                   returned, hooks>>

\* writeEvent of E and F: the channel operand of the send is read after the copy
writeEvent(c) ==
    /\ ~exited
    /\ callers[c].pc = "event"
    /\ callers' = [callers EXCEPT ![c] = [@ EXCEPT !.pc = "send", !.ch = msgCh]]
    /\ UNCHANGED <<lvars, evars, workers, nChan, exited, life, hvars>>

(***************************************************************************)
(* The writer goroutine (obj.go:78-104).                                   *)
(***************************************************************************)
\* an event channel with a buffer: the send completes while the writer
\* goroutine is not in select
RecvMsg_Buffered(w, c) ==
    /\ ~exited
    /\ w \in DOMAIN workers
    /\ workers[w].pc \in {"select", "write", "done"}
    /\ callers[c].pc = "send"
    /\ callers[c].ch # 0
    /\ callers[c].ch = workers[w].mch
    /\ workers' = [workers EXCEPT ![w] =
           [@ EXCEPT !.pc = "write",
                     !.msg = [format |-> Markers[callers[c].kind],
                              args |-> callers[c].ev,
                              fatal |-> callers[c].kind = "F"]]]
    /\ callers' = [callers EXCEPT ![c] = [@ EXCEPT !.pc = "wait", !.ch = 0]]
    /\ recvd' = Append(recvd, callers[c].ev)
    /\ UNCHANGED <<lvars, evars, nChan, exited, life, wrote, dones, returned, pred,
                   hooks>>

\* case msg := <-l.msgCh, together with the send l.msgCh<-event of writeEvent
RecvMsg(w, c) ==
    /\ ~exited
    /\ w \in DOMAIN workers
    /\ workers[w].pc = "select"
    /\ callers[c].pc = "send"
    /\ callers[c].ch # 0
    /\ callers[c].ch = workers[w].mch
    /\ workers' = [workers EXCEPT ![w] =
           [@ EXCEPT !.pc = "write",
                     !.msg = [format |-> Markers[callers[c].kind],
                              args |-> callers[c].ev,
                              fatal |-> callers[c].kind = "F"]]]
    /\ callers' = [callers EXCEPT ![c] = [@ EXCEPT !.pc = "wait", !.ch = 0]]
    /\ recvd' = Append(recvd, callers[c].ev)
    /\ UNCHANGED <<lvars, evars, nChan, exited, life, wrote, dones, returned, pred,
                   hooks>>

\* a writer that prints every fatal message with Fatalf, whatever fatalDoExit
WorkerWrite_Exit(w) ==
    /\ ~exited
    /\ w \in DOMAIN workers
    /\ workers[w].pc = "write"
    /\ LoggerPrintf(workers[w].msg.format, workers[w].msg.args)
    /\ wrote' = Append(wrote, [ev |-> workers[w].msg.args, w |-> w, h |-> logger,
                                ok |-> IF logger = 0 THEN stderrOpen
                                                     ELSE handles[logger].open,
                                gone |-> logger # 0 /\ handles[logger].ino # fs])
    /\ IF workers[w].msg.fatal
         THEN /\ exited' = TRUE
              /\ UNCHANGED workers
         ELSE /\ workers' = [workers EXCEPT ![w] = [@ EXCEPT !.pc = "done"]]
              /\ UNCHANGED exited
    /\ UNCHANGED <<lvars, fatalDoExit, stdPrefix, stdFlags, stderrOpen, handles, fs,
                   callers, nChan, life, recvd, dones, returned, pred, hooks>>

\* a writer that prints a fatal message with Printf, as any other
WorkerWrite_NoExit(w) ==
    /\ ~exited
    /\ w \in DOMAIN workers
    /\ workers[w].pc = "write"
    /\ LoggerPrintf(workers[w].msg.format, workers[w].msg.args)
    /\ wrote' = Append(wrote, [ev |-> workers[w].msg.args, w |-> w, h |-> logger,
                                ok |-> IF logger = 0 THEN stderrOpen
                                                     ELSE handles[logger].open,
                                gone |-> logger # 0 /\ handles[logger].ino # fs])
    /\ workers' = [workers EXCEPT ![w] = [@ EXCEPT !.pc = "done"]]
    /\ UNCHANGED <<lvars, fatalDoExit, stdPrefix, stdFlags, stderrOpen, handles, fs,
                   callers, nChan, exited, life, recvd, dones, returned, pred, hooks>>

\* l.logger.Fatalf when the message is fatal and fatalDoExit, else l.logger.Printf
WorkerWrite(w) ==
    /\ ~exited
    /\ w \in DOMAIN workers
    /\ workers[w].pc = "write"
    /\ LoggerPrintf(workers[w].msg.format, workers[w].msg.args)
    /\ wrote' = Append(wrote, [ev |-> workers[w].msg.args, w |-> w, h |-> logger,
                                ok |-> IF logger = 0 THEN stderrOpen
                                                     ELSE handles[logger].open,
                                \* the file written is no more at the path
                                gone |-> logger # 0 /\ handles[logger].ino # fs])
    /\ IF workers[w].msg.fatal /\ fatalDoExit
         THEN /\ exited' = TRUE
              /\ UNCHANGED workers
         ELSE /\ workers' = [workers EXCEPT ![w] = [@ EXCEPT !.pc = "done"]]
              /\ UNCHANGED exited
    /\ UNCHANGED <<lvars, fatalDoExit, stdPrefix, stdFlags, stderrOpen, handles, fs,
                   callers, nChan, life, recvd, dones, returned, pred, hooks>>

\* a writer that does not close msg.done
WorkerDone_NoClose(w) ==
    /\ ~exited
    /\ w \in DOMAIN workers
    /\ workers[w].pc = "done"
    /\ workers' = [workers EXCEPT ![w] =
           [@ EXCEPT !.pc = "select", !.msg = NoMsg, !.mch = msgCh, !.sch = stpStrCh]]
    /\ UNCHANGED <<lvars, evars, callers, nChan, exited, life, hvars>>

\* close(msg.done), then select again: its channel operands are read
WorkerDone(w) ==
    /\ ~exited
    /\ w \in DOMAIN workers
    /\ workers[w].pc = "done"
    /\ dones' = Append(dones, workers[w].msg.args)
    /\ workers' = [workers EXCEPT ![w] =
           [@ EXCEPT !.pc = "select", !.msg = NoMsg, !.mch = msgCh, !.sch = stpStrCh]]
    /\ UNCHANGED <<lvars, evars, callers, nChan, exited, life, recvd, wrote,
                   returned, pred, hooks>>

\* level functions that pass the format with its marker to the statistics
\* function
EmitReturn_Marked(c) ==
    /\ ~exited
    /\ callers[c].pc = "wait"
    /\ callers[c].ev \in Range(dones)
    /\ hooks' = IF callers[c].kind = "W" /\ wrnEventStat
                  THEN Append(hooks, [f |-> "wrn", fmt |-> Markers["W"],
                                      arg |-> callers[c].ev])
                  ELSE IF callers[c].kind = "E" /\ errEventStat
                         THEN Append(hooks, [f |-> "err", fmt |-> Markers["E"],
                                             arg |-> callers[c].ev])
                         ELSE hooks
    /\ returned' = returned \cup {callers[c].ev}
    /\ callers' = [callers EXCEPT ![c] =
           [Ret(@, NoRet) EXCEPT !.ev = NoEv, !.kind = "none", !.at = "new"]]
    /\ UNCHANGED <<lvars, evars, workers, nChan, exited, life, recvd, wrote, dones,
                   pred>>

\* a writeEvent that does not wait for the done signal
EmitReturn_NoWait(c) ==
    /\ ~exited
    /\ callers[c].pc = "wait"
    /\ hooks' = IF callers[c].kind = "W" /\ wrnEventStat
                  THEN Append(hooks, [f |-> "wrn", fmt |-> "", arg |-> callers[c].ev])
                  ELSE IF callers[c].kind = "E" /\ errEventStat
                         THEN Append(hooks, [f |-> "err", fmt |-> "", arg |-> callers[c].ev])
                         ELSE hooks
    /\ returned' = returned \cup {callers[c].ev}
    /\ callers' = [callers EXCEPT ![c] =
           [Ret(@, NoRet) EXCEPT !.ev = NoEv, !.kind = "none", !.at = "new"]]
    /\ UNCHANGED <<lvars, evars, workers, nChan, exited, life, recvd, wrote, dones,
                   pred>>

(***************************************************************************)
(* The rest of a level function: <-event.done of writeEvent                *)
(* (obj.go:320), then the statistics function of W and E when set.         *)
(***************************************************************************)
EmitReturn(c) ==
    /\ ~exited
    /\ callers[c].pc = "wait"
    /\ callers[c].ev \in Range(dones)
    /\ hooks' = IF callers[c].kind = "W" /\ wrnEventStat
                  THEN Append(hooks, [f |-> "wrn", fmt |-> "", arg |-> callers[c].ev])
                  ELSE IF callers[c].kind = "E" /\ errEventStat
                         THEN Append(hooks, [f |-> "err", fmt |-> "", arg |-> callers[c].ev])
                         ELSE hooks
    /\ returned' = returned \cup {callers[c].ev}
    /\ callers' = [callers EXCEPT ![c] =
           [Ret(@, NoRet) EXCEPT !.ev = NoEv, !.kind = "none", !.at = "new"]]
    /\ UNCHANGED <<lvars, evars, workers, nChan, exited, life, recvd, wrote, dones,
                   pred>>

(***************************************************************************)
(* Logger.Close (obj.go:220-249), also as the first part of Logger.Reopen  *)
(* (obj.go:252-268) and of Logger.SetFlags (obj.go:118-121), which calls   *)
(* setFlags and then Reopen.  op names the function the caller is in.      *)
(***************************************************************************)
\* a SetFlags that checks the closed flag before it stores the flags
StartClose_CheckFirst(c, op, flags) ==
    /\ ~exited
    /\ callers[c].pc = "idle"
    /\ callers[c].nctl < MaxCtl
    /\ IF op = "SetFlags" /\ ~closed
         THEN LET sf == setFlags(origPrefix, flags, logPrefix) IN
              /\ origPrefix' = sf.origPrefix
              /\ logPrefix' = sf.logPrefix
              /\ logFlags' = sf.logFlags
         ELSE UNCHANGED <<origPrefix, logPrefix, logFlags>>
    /\ callers' = [callers EXCEPT ![c] =
           IF closed
             THEN [Ret(@, ErrLogClosed) EXCEPT !.op = op, !.arg = flags, !.nctl = @ + 1]
             ELSE [@ EXCEPT !.op = op, !.arg = flags, !.nctl = @ + 1, !.ret = NoRet,
                            !.pc = "stop", !.ch = stpStrCh]]
    /\ life' = IF op = "Close" \/ life = "new" THEN life ELSE "failed"
    /\ UNCHANGED <<logger, logName, debug, closed, msgCh, stpStrCh, errEventStat,
                   wrnEventStat, evars, workers, nChan, exited, hvars>>

\* a Close that does not stop the writer goroutine before it closes the file
StartClose_NoStop(c, op, flags) ==
    /\ ~exited
    /\ callers[c].pc = "idle"
    /\ callers[c].nctl < MaxCtl
    /\ IF op = "SetFlags"
         THEN LET sf == setFlags(origPrefix, flags, logPrefix) IN
              /\ origPrefix' = sf.origPrefix
              /\ logPrefix' = sf.logPrefix
              /\ logFlags' = sf.logFlags
         ELSE UNCHANGED <<origPrefix, logPrefix, logFlags>>
    /\ callers' = [callers EXCEPT ![c] =
           IF closed
             THEN [Ret(@, ErrLogClosed) EXCEPT !.op = op, !.arg = flags, !.nctl = @ + 1]
             ELSE [@ EXCEPT !.op = op, !.arg = flags, !.nctl = @ + 1, !.ret = NoRet,
                            !.pc = "closing", !.ch = 0]]
    /\ life' = IF op = "Close" \/ life = "new" THEN life ELSE "failed"
    /\ UNCHANGED <<logger, logName, debug, closed, msgCh, stpStrCh, errEventStat,
                   wrnEventStat, evars, workers, nChan, exited, hvars>>

\* a Close that does not check the closed flag
StartClose_NoCheck(c, op, flags) ==
    /\ ~exited
    /\ callers[c].pc = "idle"
    /\ callers[c].nctl < MaxCtl
    /\ IF op = "SetFlags"
         THEN LET sf == setFlags(origPrefix, flags, logPrefix) IN
              /\ origPrefix' = sf.origPrefix
              /\ logPrefix' = sf.logPrefix
              /\ logFlags' = sf.logFlags
         ELSE UNCHANGED <<origPrefix, logPrefix, logFlags>>
    /\ callers' = [callers EXCEPT ![c] =
           [@ EXCEPT !.op = op, !.arg = flags, !.nctl = @ + 1, !.ret = NoRet,
                     !.pc = "stop", !.ch = stpStrCh]]
    /\ life' = IF op = "Close" \/ life = "new" THEN life ELSE "failed"
    /\ UNCHANGED <<logger, logName, debug, closed, msgCh, stpStrCh, errEventStat,
                   wrnEventStat, evars, workers, nChan, exited, hvars>>

\* the closed check, and the channel operand of the stop send
StartClose(c, op, flags) ==
    /\ ~exited
    /\ callers[c].pc = "idle"
    /\ callers[c].nctl < MaxCtl
    /\ IF op = "SetFlags"
         THEN LET sf == setFlags(origPrefix, flags, logPrefix) IN
              /\ origPrefix' = sf.origPrefix
              /\ logPrefix' = sf.logPrefix
              /\ logFlags' = sf.logFlags
         ELSE UNCHANGED <<origPrefix, logPrefix, logFlags>>
    /\ callers' = [callers EXCEPT ![c] =
           IF closed
             THEN [Ret(@, ErrLogClosed) EXCEPT !.op = op, !.arg = flags, !.nctl = @ + 1]
             ELSE [@ EXCEPT !.op = op, !.arg = flags, !.nctl = @ + 1, !.ret = NoRet,
                            !.pc = "stop", !.ch = stpStrCh]]
    /\ life' = IF op = "Close" \/ life = "new" THEN life ELSE "failed"
    /\ UNCHANGED <<logger, logName, debug, closed, msgCh, stpStrCh, errEventStat,
                   wrnEventStat, evars, workers, nChan, exited, hvars>>

Close(c)           == StartClose(c, "Close", NoFlags)
Reopen(c)          == StartClose(c, "Reopen", NoFlags)
SetFlags(c, flags) == StartClose(c, "SetFlags", flags)

\* a Close that sets the closed flag before it closes the file
CloseFile_FlagFirst(c) ==
    /\ ~exited
    /\ callers[c].pc = "closing"
    /\ LET ok ==  \* the result of closer.Close()
            IF logger = 0 THEN stderrOpen ELSE handles[logger].open
           next(rec) == IF rec.op = "Close" THEN Ret(rec, Nil)
                                            ELSE [rec EXCEPT !.pc = "reopen"]
       IN
       IF logName = DefaultLog
         THEN /\ callers' = [callers EXCEPT ![c] = next(@)]
              /\ life' = IF callers[c].op = "Close" THEN "closed" ELSE life
              /\ UNCHANGED <<closed, handles, stderrOpen>>
         ELSE IF ~ok
           THEN /\ callers' = [callers EXCEPT ![c] = Ret(@, NewFileError("ErrClosed"))]
                /\ closed' = TRUE
                /\ UNCHANGED <<handles, stderrOpen, life>>
           ELSE /\ IF logger = 0
                     THEN /\ stderrOpen' = FALSE
                          /\ UNCHANGED handles
                     ELSE /\ handles' = [handles EXCEPT ![logger].open = FALSE]
                          /\ UNCHANGED stderrOpen
                /\ closed' = TRUE
                /\ callers' = [callers EXCEPT ![c] = next(@)]
                /\ life' = IF callers[c].op = "Close" THEN "closed" ELSE life
    /\ UNCHANGED <<logger, logName, origPrefix, logPrefix, logFlags, debug, msgCh,
                   stpStrCh, errEventStat, wrnEventStat, fatalDoExit, stdPrefix,
                   stdFlags, stderr, fs, inodes, workers, nChan, exited, hvars>>

\* a Close that closes the writer of the default log as well
CloseFile_CloseStd(c) ==
    /\ ~exited
    /\ callers[c].pc = "closing"
    /\ LET ok == IF logger = 0 THEN stderrOpen ELSE handles[logger].open
           next(rec) == IF rec.op = "Close" THEN Ret(rec, Nil)
                                            ELSE [rec EXCEPT !.pc = "reopen"]
       IN
       IF ~ok
         THEN /\ callers' = [callers EXCEPT ![c] = Ret(@, NewFileError("ErrClosed"))]
              /\ UNCHANGED <<closed, handles, stderrOpen, life>>
         ELSE /\ IF logger = 0
                   THEN /\ stderrOpen' = FALSE
                        /\ UNCHANGED handles
                   ELSE /\ handles' = [handles EXCEPT ![logger].open = FALSE]
                        /\ UNCHANGED stderrOpen
              /\ closed' = TRUE
              /\ callers' = [callers EXCEPT ![c] = next(@)]
              /\ life' = IF callers[c].op = "Close" THEN "closed" ELSE life
    /\ UNCHANGED <<logger, logName, origPrefix, logPrefix, logFlags, debug, msgCh,
                   stpStrCh, errEventStat, wrnEventStat, fatalDoExit, stdPrefix,
                   stdFlags, stderr, fs, inodes, workers, nChan, exited, hvars>>

\* a Reopen that goes on to open the log when its Close has failed
CloseFile_Ignore(c) ==
    /\ ~exited
    /\ callers[c].pc = "closing"
    /\ LET ok == IF logger = 0 THEN stderrOpen ELSE handles[logger].open
           next(rec) == IF rec.op = "Close" THEN Ret(rec, Nil)
                                            ELSE [rec EXCEPT !.pc = "reopen"]
       IN
       IF logName = DefaultLog
         THEN /\ callers' = [callers EXCEPT ![c] = next(@)]
              /\ life' = IF callers[c].op = "Close" THEN "closed" ELSE life
              /\ UNCHANGED <<closed, handles, stderrOpen>>
         ELSE IF ~ok
           THEN /\ callers' = [callers EXCEPT ![c] =
                       IF @.op = "Close" THEN Ret(@, NewFileError("ErrClosed"))
                                         ELSE [@ EXCEPT !.pc = "reopen"]]
                /\ UNCHANGED <<closed, handles, stderrOpen, life>>
           ELSE /\ IF logger = 0
                     THEN /\ stderrOpen' = FALSE
                          /\ UNCHANGED handles
                     ELSE /\ handles' = [handles EXCEPT ![logger].open = FALSE]
                          /\ UNCHANGED stderrOpen
                /\ closed' = TRUE
                /\ callers' = [callers EXCEPT ![c] = next(@)]
                /\ life' = IF callers[c].op = "Close" THEN "closed" ELSE life
    /\ UNCHANGED <<logger, logName, origPrefix, logPrefix, logFlags, debug, msgCh,
                   stpStrCh, errEventStat, wrnEventStat, fatalDoExit, stdPrefix,
                   stdFlags, stderr, fs, inodes, workers, nChan, exited, hvars>>

\* a Close that returns nil when the file cannot be closed
CloseFile_NoErr(c) ==
    /\ ~exited
    /\ callers[c].pc = "closing"
    /\ LET ok == IF logger = 0 THEN stderrOpen ELSE handles[logger].open
           next(rec) == IF rec.op = "Close" THEN Ret(rec, Nil)
                                            ELSE [rec EXCEPT !.pc = "reopen"]
       IN
       IF logName = DefaultLog
         THEN /\ callers' = [callers EXCEPT ![c] = next(@)]
              /\ life' = IF callers[c].op = "Close" THEN "closed" ELSE life
              /\ UNCHANGED <<closed, handles, stderrOpen>>
         ELSE /\ IF logger = 0
                   THEN /\ stderrOpen' = FALSE
                        /\ UNCHANGED handles
                   ELSE /\ handles' = [handles EXCEPT ![logger].open = FALSE]
                        /\ UNCHANGED stderrOpen
              /\ closed' = TRUE
              /\ callers' = [callers EXCEPT ![c] = next(@)]
              /\ life' = IF callers[c].op = "Close" THEN "closed" ELSE life
    /\ UNCHANGED <<logger, logName, origPrefix, logPrefix, logFlags, debug, msgCh,
                   stpStrCh, errEventStat, wrnEventStat, fatalDoExit, stdPrefix,
                   stdFlags, stderr, fs, inodes, workers, nChan, exited, hvars>>

\* after the acknowledgement: the file is closed unless the log is the default one
CloseFile(c) ==
    /\ ~exited
    /\ callers[c].pc = "closing"
    /\ LET ok ==  \* the result of closer.Close()
            IF logger = 0 THEN stderrOpen ELSE handles[logger].open
           next(rec) == IF rec.op = "Close" THEN Ret(rec, Nil)
                                            ELSE [rec EXCEPT !.pc = "reopen"]
       IN
       IF logName = DefaultLog
         THEN /\ callers' = [callers EXCEPT ![c] = next(@)]
              /\ life' = IF callers[c].op = "Close" THEN "closed" ELSE life
              /\ UNCHANGED <<closed, handles, stderrOpen>>
         ELSE IF ~ok
           THEN /\ callers' = [callers EXCEPT ![c] = Ret(@, NewFileError("ErrClosed"))]
                /\ UNCHANGED <<closed, handles, stderrOpen, life>>
           ELSE /\ IF logger = 0
                     THEN /\ stderrOpen' = FALSE
                          /\ UNCHANGED handles
                     ELSE /\ handles' = [handles EXCEPT ![logger].open = FALSE]
                          /\ UNCHANGED stderrOpen
                /\ closed' = TRUE
                /\ callers' = [callers EXCEPT ![c] = next(@)]
                /\ life' = IF callers[c].op = "Close" THEN "closed" ELSE life
    /\ UNCHANGED <<logger, logName, origPrefix, logPrefix, logFlags, debug, msgCh,
                   stpStrCh, errEventStat, wrnEventStat, fatalDoExit, stdPrefix,
                   stdFlags, stderr, fs, inodes, workers, nChan, exited, hvars>>

\* a Reopen that resets the closed flag when the log cannot be opened
ReopenLog_Unclose(c) ==
    /\ ~exited
    /\ callers[c].pc = "reopen"
    /\ IF CanOpen(logName)
         THEN /\ openLog(logName, logPrefix, logFlags)
              /\ callers' = [callers EXCEPT ![c] =
                     [@ EXCEPT !.pc = "start", !.ch = stpStrCh]]
         ELSE /\ callers' = [callers EXCEPT ![c] = Ret(@, NewFileError("ErrNotExist"))]
              /\ closed' = FALSE
              /\ UNCHANGED <<logger, stdPrefix, stdFlags, handles, fs, inodes>>
    /\ UNCHANGED life
    /\ UNCHANGED <<logName, origPrefix, logPrefix, logFlags, debug, msgCh, stpStrCh,
                   errEventStat, wrnEventStat, fatalDoExit, stderr, stderrOpen,
                   workers, nChan, exited, hvars>>

\* a Reopen that returns nil when the log cannot be opened
ReopenLog_NoErr(c) ==
    /\ ~exited
    /\ callers[c].pc = "reopen"
    /\ IF CanOpen(logName)
         THEN /\ openLog(logName, logPrefix, logFlags)
              /\ callers' = [callers EXCEPT ![c] =
                     [@ EXCEPT !.pc = "start", !.ch = stpStrCh]]
         ELSE /\ callers' = [callers EXCEPT ![c] = Ret(@, Nil)]
              /\ UNCHANGED <<logger, closed, stdPrefix, stdFlags, handles, fs, inodes>>
    /\ UNCHANGED life
    /\ UNCHANGED <<logName, origPrefix, logPrefix, logFlags, debug, msgCh, stpStrCh,
                   errEventStat, wrnEventStat, fatalDoExit, stderr, stderrOpen,
                   workers, nChan, exited, hvars>>

\* a Reopen that opens again the file it has, whatever is at the path
ReopenLog_Keep(c) ==
    /\ ~exited
    /\ callers[c].pc = "reopen"
    /\ IF logger = 0
         THEN UNCHANGED handles
         ELSE handles' = [handles EXCEPT ![logger].open = TRUE]
    /\ closed' = FALSE
    /\ callers' = [callers EXCEPT ![c] = [@ EXCEPT !.pc = "start", !.ch = stpStrCh]]
    /\ UNCHANGED <<logger, logName, origPrefix, logPrefix, logFlags, debug, msgCh,
                   stpStrCh, errEventStat, wrnEventStat, fatalDoExit, stdPrefix,
                   stdFlags, stderr, stderrOpen, fs, inodes, workers, nChan, exited,
                   life, hvars>>

\* a Reopen that opens the log with no prefix and the standard flags
ReopenLog_Reset(c) ==
    /\ ~exited
    /\ callers[c].pc = "reopen"
    /\ IF CanOpen(logName)
         THEN /\ openLog(logName, <<>>, LstdFlags)
              /\ logPrefix' = <<>>
              /\ logFlags' = LstdFlags
              /\ callers' = [callers EXCEPT ![c] =
                     [@ EXCEPT !.pc = "start", !.ch = stpStrCh]]
         ELSE /\ callers' = [callers EXCEPT ![c] = Ret(@, NewFileError("ErrNotExist"))]
              /\ UNCHANGED <<logger, closed, stdPrefix, stdFlags, handles, fs, inodes,
                             logPrefix, logFlags>>
    /\ UNCHANGED life
    /\ UNCHANGED <<logName, origPrefix, debug, msgCh, stpStrCh,
                   errEventStat, wrnEventStat, fatalDoExit, stderr, stderrOpen,
                   workers, nChan, exited, hvars>>

\* a Reopen that opens the log and returns without the start send
ReopenLog_NoStart(c) ==
    /\ ~exited
    /\ callers[c].pc = "reopen"
    /\ IF CanOpen(logName)
         THEN /\ openLog(logName, logPrefix, logFlags)
              /\ callers' = [callers EXCEPT ![c] = Ret(@, Nil)]
              /\ life' = "reopened"
         ELSE /\ callers' = [callers EXCEPT ![c] = Ret(@, NewFileError("ErrNotExist"))]
              /\ UNCHANGED <<logger, closed, stdPrefix, stdFlags, handles, fs, inodes,
                             life>>
    /\ UNCHANGED <<logName, origPrefix, logPrefix, logFlags, debug, msgCh, stpStrCh,
                   errEventStat, wrnEventStat, fatalDoExit, stderr, stderrOpen,
                   workers, nChan, exited, hvars>>

\* Reopen after its Close: openLog, then the channel operand of the start send
ReopenLog(c) ==
    /\ ~exited
    /\ callers[c].pc = "reopen"
    /\ IF CanOpen(logName)
         THEN /\ openLog(logName, logPrefix, logFlags)
              /\ callers' = [callers EXCEPT ![c] =
                     [@ EXCEPT !.pc = "start", !.ch = stpStrCh]]
         ELSE /\ callers' = [callers EXCEPT ![c] = Ret(@, NewFileError("ErrNotExist"))]
              /\ UNCHANGED <<logger, closed, stdPrefix, stdFlags, handles, fs, inodes>>
    /\ UNCHANGED life
    /\ UNCHANGED <<logName, origPrefix, logPrefix, logFlags, debug, msgCh, stpStrCh,
                   errEventStat, wrnEventStat, fatalDoExit, stderr, stderrOpen,
                   workers, nChan, exited, hvars>>

(***************************************************************************)
(* Operations on stpStrCh.  A caller sends at obj.go:227 (stop) and        *)
(* obj.go:264 (start) and receives at obj.go:229; the writer receives at   *)
(* obj.go:96 (in select) and obj.go:101 (parked) and sends at obj.go:98.   *)
(* Any sender and any receiver on the same channel can meet.               *)
(***************************************************************************)
CSends(c) == callers[c].pc \in {"stop", "start"} /\ callers[c].ch # 0
CRecvs(c) == callers[c].pc = "ackwait" /\ callers[c].ch # 0
WSends(w) == workers[w].pc = "ack" /\ workers[w].sch # 0
WRecvs(w) == workers[w].pc \in {"select", "parked"} /\ workers[w].sch # 0

AfterSendC(rec) == IF rec.pc = "stop"
                     THEN [rec EXCEPT !.pc = "ackwait", !.ch = stpStrCh]
                     ELSE Ret(rec, Nil)
AfterRecvC(rec) == [rec EXCEPT !.pc = "closing", !.ch = 0]
\* a writer that acknowledges the stop and does not wait for the start
AfterSendW_NoPark(rec) ==
    [rec EXCEPT !.pc = "select", !.mch = msgCh, !.sch = stpStrCh]

AfterSendW(rec) == [rec EXCEPT !.pc = "parked", !.sch = stpStrCh]
\* a writer goroutine that ends when it gets the start message
AfterRecvW_End(rec) == IF rec.pc = "select"
                         THEN [rec EXCEPT !.pc = "ack", !.sch = stpStrCh]
                         ELSE [rec EXCEPT !.pc = "ended", !.sch = 0]

AfterRecvW(rec) == IF rec.pc = "select"
                     THEN [rec EXCEPT !.pc = "ack", !.sch = stpStrCh]
                     ELSE [rec EXCEPT !.pc = "select", !.mch = msgCh, !.sch = stpStrCh]

LifeAfterSend(c) == IF callers[c].pc = "start" THEN "reopened" ELSE life

\* a caller's stop or start is received by a writer
StpSend(c, w) ==
    /\ ~exited
    /\ w \in DOMAIN workers
    /\ CSends(c) /\ WRecvs(w)
    /\ callers[c].ch = workers[w].sch
    /\ callers' = [callers EXCEPT ![c] = AfterSendC(@)]
    /\ workers' = [workers EXCEPT ![w] = AfterRecvW(@)]
    /\ life' = LifeAfterSend(c)
    /\ UNCHANGED <<lvars, evars, nChan, exited, hvars>>

\* a writer's acknowledgement is received by a caller
StpAck(w, c) ==
    /\ ~exited
    /\ w \in DOMAIN workers
    /\ WSends(w) /\ CRecvs(c)
    /\ callers[c].ch = workers[w].sch
    /\ callers' = [callers EXCEPT ![c] = AfterRecvC(@)]
    /\ workers' = [workers EXCEPT ![w] = AfterSendW(@)]
    /\ UNCHANGED <<lvars, evars, nChan, exited, life, hvars>>

\* a caller's stop or start is received by another caller waiting in Close
StpCross(c, d) ==
    /\ ~exited
    /\ c # d
    /\ CSends(c) /\ CRecvs(d)
    /\ callers[c].ch = callers[d].ch
    /\ callers' = [callers EXCEPT ![c] = AfterSendC(@), ![d] = AfterRecvC(@)]
    /\ life' = LifeAfterSend(c)
    /\ UNCHANGED <<lvars, evars, workers, nChan, exited, hvars>>

\* a writer's acknowledgement is received by another writer
StpWriters(w, v) ==
    /\ ~exited
    /\ w \in DOMAIN workers /\ v \in DOMAIN workers
    /\ w # v
    /\ WSends(w) /\ WRecvs(v)
    /\ workers[w].sch = workers[v].sch
    /\ workers' = [workers EXCEPT ![w] = AfterSendW(@), ![v] = AfterRecvW(@)]
    /\ UNCHANGED <<lvars, evars, callers, nChan, exited, life, hvars>>

(***************************************************************************)
(* The environment: the log file is removed while the Logger runs          *)
(* (errors.go:60).                                                         *)
(***************************************************************************)
Remove ==
    /\ ~exited
    /\ fs > 0
    /\ fs' = 0
    /\ UNCHANGED <<lvars, fatalDoExit, stdPrefix, stdFlags, stderr, stderrOpen,
                   handles, inodes, gvars, hvars>>

(***************************************************************************)
(* The disciplined use of a Logger: one goroutine makes the lifecycle and  *)
(* configuration calls, one after the other, and calls Open only on a      *)
(* Logger it has not opened or has closed; every goroutine logs.           *)
(***************************************************************************)
Next ==
    \/ \E file \in {DefaultLog, LogFile, NxFile} :
          life \notin {"open", "reopened"} /\ Open(Ctl, file, stubApp, NoFlags)
    \/ Close(Ctl)
    \/ Reopen(Ctl)
    \/ SetFlags(Ctl, NoPID)
    \/ \E c \in Callers, k \in {"I", "E", "F"} : Emit(c, k)
    \/ \E c \in Callers : writeEvent(c)
    \/ \E c \in Callers : EmitReturn(c)
    \/ CloseFile(Ctl)
    \/ ReopenLog(Ctl)
    \/ \E w \in 1..MaxCtl, c \in Callers : RecvMsg(w, c)
    \/ \E w \in 1..MaxCtl : WorkerWrite(w)
    \/ \E w \in 1..MaxCtl : WorkerDone(w)
    \/ \E w \in 1..MaxCtl : StpSend(Ctl, w)
    \/ \E w \in 1..MaxCtl : StpAck(w, Ctl)
    \/ Remove

Spec == Init /\ [][Next]_vars

(***************************************************************************)
(* Logging in earnest: the Logger is opened once, on the file or on the    *)
(* default log, and every goroutine calls every level function while the   *)
(* owner of the lifecycle turns debug mode on and off, closes and reopens. *)
(***************************************************************************)
Kinds == {"D", "I", "W", "E", "F"}

NextEmit ==
    \/ \E file \in {DefaultLog, LogFile} :
          life = "new" /\ Open(Ctl, file, stubApp, NoFlags)
    \/ \E v \in BOOLEAN : SetDebug(Ctl, v)
    \/ Close(Ctl)
    \/ Reopen(Ctl)
    \/ \E c \in Callers, k \in Kinds : Emit(c, k)
    \/ \E c \in Callers : writeEvent(c)
    \/ \E c \in Callers : EmitReturn(c)
    \/ CloseFile(Ctl)
    \/ ReopenLog(Ctl)
    \/ \E w \in 1..MaxCtl, c \in Callers : RecvMsg(w, c)
    \/ \E w \in 1..MaxCtl : WorkerWrite(w)
    \/ \E w \in 1..MaxCtl : WorkerDone(w)
    \/ \E w \in 1..MaxCtl : StpSend(Ctl, w)
    \/ \E w \in 1..MaxCtl : StpAck(w, Ctl)

SpecEmit == Init /\ [][NextEmit]_vars

(***************************************************************************)
(* No discipline: every goroutine makes lifecycle calls at any time, Open  *)
(* on an open Logger included, while the others log.                       *)
(***************************************************************************)
FreeCall == SumCtl(callers, Callers) < MaxFree

NextFree ==
    \/ \E c \in Callers, file \in {DefaultLog, LogFile} :
          FreeCall /\ Open(c, file, stubApp, NoFlags)
    \/ \E c \in Callers : FreeCall /\ Close(c)
    \/ \E c \in Callers : FreeCall /\ Reopen(c)
    \/ \E c \in Callers : FreeCall /\ SetFlags(c, NoPID)
    \/ \E c \in Callers : Emit(c, "I")
    \/ \E c \in Callers : EmitReturn(c)
    \/ \E c \in Callers : CloseFile(c)
    \/ \E c \in Callers : ReopenLog(c)
    \/ \E w \in 1..MaxFree, c \in Callers : RecvMsg(w, c)
    \/ \E w \in 1..MaxFree : WorkerWrite(w)
    \/ \E w \in 1..MaxFree : WorkerDone(w)
    \/ \E w \in 1..MaxFree, c \in Callers : StpSend(c, w)
    \/ \E w \in 1..MaxFree, c \in Callers : StpAck(w, c)
    \/ \E c, d \in Callers : StpCross(c, d)
    \/ \E w, v \in 1..MaxFree : StpWriters(w, v)

SpecFree == Init /\ [][NextFree]_vars

(***************************************************************************)
(* Properties.                                                             *)
(***************************************************************************)
\* the lines whose argument is the event e in a sequence of lines
LinesOf(lines, e) == {j \in 1..Len(lines) : lines[j].arg = e}

\* the lines of the writer the i-th write went to
Target(i) == IF wrote[i].h = 0 THEN stderr ELSE inodes[handles[wrote[i].h].ino]

Events == {[c |-> c, n |-> n] : c \in Callers, n \in 1..MaxEmit + 1}

\* C1: a call of a level function that has returned was written before by a
\* writer goroutine, and its line is in the writer's output (synchronous
\* hand-off: no call returns before its own line is written).
C1_SyncHandoff ==
    \A e \in returned :
        \E i \in 1..Len(wrote) : wrote[i].ev = e /\ LinesOf(Target(i), e) # {}

\* calls of two goroutines have returned, a Debug call in debug mode among them
C1_Witness ==
    /\ \E e \in returned : e.c = "c1"
    /\ \E e \in returned : e.c = "c2"
    /\ \E j \in 1..Len(stderr) : stderr[j].fmt = Markers["D"]

\* the writer goroutines that are in Printf or Fatalf
Writing == {w \in DOMAIN workers : workers[w].pc = "write"}

\* a step that adds to the output of the Logger's writer
BackendWrite ==
    \/ \E i \in DOMAIN inodes : inodes'[i] # inodes[i]
    \/ logger = 0 /\ stderr' # stderr

\* C2: at most one write to the Logger's backend is in progress at any time,
\* and every step that writes to the backend is the Printf or Fatalf of a
\* writer goroutine, whatever the callers do at the same time.
C2_Serialized ==
    /\ [](Cardinality(Writing) <= 1)
    /\ [][BackendWrite =>
            \E w \in Writing : exited' \/ workers'[w].pc = "done"]_vars

\* a writer is in Printf while another caller waits to hand over its event
\* and a writer of an earlier Open is still parked
C2_Witness ==
    /\ Writing # {}
    /\ \E c \in Callers : callers[c].pc = "send"
    /\ \E v \in DOMAIN workers : workers[v].pc = "parked"

\* the lines at the destination the Logger was opened on
Dest == IF logName = DefaultLog THEN stderr
        ELSE IF fs > 0 THEN inodes[fs] ELSE <<>>

\* C3: the lines at the destination are in emission order: they are the
\* events in the order the writer received them, and when the call of a
\* returned before the call of b was made, the line of b comes after the
\* line of a.
C3_EmissionOrder ==
    /\ Len(Dest) <= Len(recvd)
    /\ \A j \in 1..Len(Dest) : Dest[j].arg = recvd[j]
    /\ \A p \in pred :
          \A j \in LinesOf(Dest, p[2]) : \E i \in LinesOf(Dest, p[1]) : i < j

\* two callers' lines are at the destination, the second call made after the
\* first returned, and the file was reopened
C3_Witness ==
    /\ life = "reopened"
    /\ logName = LogFile
    /\ \E p \in pred : /\ p[1].c # p[2].c
                       /\ LinesOf(Dest, p[1]) # {}
                       /\ LinesOf(Dest, p[2]) # {}

\* the number of times e occurs in a sequence of events
Occ(seq, e) == Cardinality({i \in 1..Len(seq) : seq[i] = e})

\* the events written so far
Written == {wrote[i].ev : i \in 1..Len(wrote)}

\* a writer holds the event e and has not finished with it
InHand(e) == ~exited /\ \E w \in DOMAIN workers : workers[w].msg.args = e

\* the event whose Fatalf has terminated the process
ExitEv(e) == exited /\ \E w \in DOMAIN workers :
                          workers[w].pc = "write" /\ workers[w].msg.args = e

\* C4 as stated: every event the event channel accepted is received once and,
\* once no writer holds it any more, has one line at the destination and a
\* done signal fired once.
C4_ExactlyOnce ==
    \A e \in Range(recvd) :
        /\ Occ(recvd, e) = 1
        /\ InHand(e) \/ ( /\ Cardinality(LinesOf(Dest, e)) = 1
                          /\ Occ(dones, e) = 1 )

\* C4 amended: every accepted event is received once and written once, to
\* one line at the destination; its done signal is fired once, except that
\* the fatal event whose Fatalf terminates the process has its line written
\* once and its done signal never fired.
C4_ExactlyOnceButFatal ==
    \A e \in Range(recvd) :
        /\ Occ(recvd, e) = 1
        /\ Cardinality(LinesOf(Dest, e)) = (IF e \in Written THEN 1 ELSE 0)
        /\ Cardinality({i \in 1..Len(wrote) : wrote[i].ev = e}) <= 1
        /\ Occ(dones, e) <= 1
        /\ Occ(dones, e) = 1 => e \in Written
        /\ InHand(e) \/ ( /\ e \in Written
                          /\ Occ(dones, e) = (IF ExitEv(e) THEN 0 ELSE 1) )

\* the process has exited on a fatal event after another event was completed
C4_Witness ==
    /\ exited
    /\ dones # <<>>
    /\ \E e \in Range(recvd) : ExitEv(e) /\ Cardinality(LinesOf(Dest, e)) = 1

\* C5: as long as no Open has succeeded, a Close call has returned at once
\* with ErrLogClosed: the caller is never found sending or waiting on the
\* control channel, and the value returned is never nil.
C5_CloseNeverOpened ==
    nChan = 0 =>
        \A c \in Callers :
            callers[c].op = "Close" =>
                callers[c].pc = "idle" /\ callers[c].ret = ErrLogClosed

\* Close was called on a Logger that was never opened
C5_Witness ==
    /\ nChan = 0
    /\ life = "new"
    /\ callers[Ctl].op = "Close"
    /\ callers[Ctl].ret = ErrLogClosed

\* the caller c makes its next call, and the call is Close
CallsClose(c) ==
    /\ callers[c].pc = "idle"
    /\ callers'[c].nctl = callers[c].nctl + 1
    /\ callers'[c].op = "Close"

\* C6: when the last call of the lifecycle's owner was a Close that returned
\* nil, on the file or on the default log, its next Close call returns
\* ErrLogClosed at once: it neither returns nil nor waits on the control
\* channel.
C6_DoubleClose ==
    [][(/\ callers[Ctl].op = "Close"
        /\ callers[Ctl].ret = Nil
        /\ CallsClose(Ctl))
       => (callers'[Ctl].pc = "idle" /\ callers'[Ctl].ret = ErrLogClosed)]_vars

\* the writer goroutines that are not parked
Running == {w \in DOMAIN workers : workers[w].pc # "parked"}

\* C7: Close comes to closing the file only after the writer has acknowledged
\* the stop, the writer being parked from then on; a writer that is not
\* parked has an open file to write to, and no line was ever written to a
\* closed file.
C7_CloseHandshake ==
    /\ \A c \in Callers : callers[c].pc = "closing" => Running = {}
    /\ Running # {} => (IF logger = 0 THEN stderrOpen ELSE handles[logger].open)
    /\ \A i \in 1..Len(wrote) : wrote[i].ok

\* Close is about to close the file of a Logger that has written a line,
\* while a caller waits to hand over an event
C7_Witness ==
    /\ callers[Ctl].pc = "closing"
    /\ callers[Ctl].op = "Close"
    /\ logger # 0
    /\ handles[logger].open
    /\ wrote # <<>>
    /\ \E c \in Callers : callers[c].pc = "send"

\* the writer goroutines in select, able to receive from the event channel
InSelect == {w \in DOMAIN workers :
                workers[w].pc = "select" /\ workers[w].mch = msgCh}

\* C8: whenever the closed flag is true, no writer goroutine of the Logger is
\* in select on the Logger's event channel, whatever calls the goroutines
\* make and however they interleave.
C8_ClosedFlag == closed => InSelect = {}

\* C9: a level-function call made after a Close returned nil, while no Open,
\* Reopen or SetFlags was called since, stays blocked: it has not returned and
\* its line was not written.
C9_EmitAfterClose ==
    life = "closed" =>
        \A c \in Callers :
            callers[c].at = "closed" =>
                /\ callers[c].pc \in {"event", "send", "wait"}
                /\ callers[c].ev \notin Written
                /\ callers[c].ev \notin returned

(***************************************************************************)
(* The disciplined use under the scheduler: a goroutine that can take a    *)
(* step takes it, and a send and a receive that can meet do meet.  Callers *)
(* are not obliged to make calls.                                          *)
(***************************************************************************)
Fairness ==
    /\ WF_vars(\E w \in 1..MaxCtl, c \in Callers : RecvMsg(w, c))
    /\ WF_vars(\E w \in 1..MaxCtl : WorkerWrite(w))
    /\ WF_vars(\E w \in 1..MaxCtl : WorkerDone(w))
    /\ WF_vars(\E c \in Callers : writeEvent(c))
    /\ WF_vars(\E c \in Callers : EmitReturn(c))
    /\ WF_vars(\E w \in 1..MaxCtl : StpSend(Ctl, w))
    /\ WF_vars(\E w \in 1..MaxCtl : StpAck(w, Ctl))
    /\ WF_vars(CloseFile(Ctl))
    /\ WF_vars(ReopenLog(Ctl))

(***************************************************************************)
(* Log rotation: the Logger is opened once, the file may be removed from   *)
(* outside, the owner calls Reopen and every goroutine logs meanwhile.     *)
(***************************************************************************)
NextReopen ==
    \/ \E file \in {DefaultLog, LogFile} :
          life = "new" /\ Open(Ctl, file, stubApp, NoFlags)
    \/ Reopen(Ctl)
    \/ \E c \in Callers, k \in {"I", "F"} : Emit(c, k)
    \/ \E c \in Callers : writeEvent(c)
    \/ \E c \in Callers : EmitReturn(c)
    \/ CloseFile(Ctl)
    \/ ReopenLog(Ctl)
    \/ \E w \in 1..MaxCtl, c \in Callers : RecvMsg(w, c)
    \/ \E w \in 1..MaxCtl : WorkerWrite(w)
    \/ \E w \in 1..MaxCtl : WorkerDone(w)
    \/ \E w \in 1..MaxCtl : StpSend(Ctl, w)
    \/ \E w \in 1..MaxCtl : StpAck(w, Ctl)
    \/ Remove

SpecReopen == Init /\ [][NextReopen]_vars /\ Fairness

\* the step in which the Reopen of the lifecycle's owner returns nil
ReopenReturns ==
    /\ callers[Ctl].op = "Reopen"
    /\ callers[Ctl].pc # "idle"
    /\ callers'[Ctl].pc = "idle"
    /\ callers'[Ctl].ret = Nil

\* the step in which that Reopen opens the log again
ReopenOpens ==
    /\ callers[Ctl].op = "Reopen"
    /\ callers[Ctl].pc = "reopen"
    /\ callers'[Ctl].pc # "reopen"
    /\ callers'[Ctl].ret # NewFileError("ErrNotExist")

\* the caller c is in a level-function call made after a Reopen returned nil
AfterReopen(c) == callers[c].at = "reopened"

\* C10: when Reopen returns nil the closed flag is false and the writer that
\* was parked, the same goroutine, is in select on the Logger's channels; the
\* Logger then writes to the file at the destination path, which Reopen has
\* opened; and a level-function call made afterwards returns, its line
\* written to the open writer, unless a later lifecycle call or a fatal
\* event intervenes.
C10_ReopenResumes ==
    /\ [][ReopenReturns =>
            /\ closed' = FALSE
            /\ Len(workers') = Len(workers)
            /\ workers[Len(workers)].pc = "parked"
            /\ workers'[Len(workers)].pc = "select"
            /\ workers'[Len(workers)].mch = msgCh'
            /\ workers'[Len(workers)].sch = stpStrCh']_vars
    /\ [][ReopenOpens =>
            IF logName = DefaultLog THEN logger' = 0
            ELSE /\ logger' = Len(handles')
                 /\ handles'[logger'].open
                 /\ fs' > 0
                 /\ handles'[logger'].ino = fs']_vars
    /\ [][\A c \in Callers :
            (AfterReopen(c) /\ ~AfterReopen(c)') =>
                \E i \in 1..Len(wrote) :
                    /\ wrote[i].ev = callers[c].ev
                    /\ wrote[i].ok
                    /\ LinesOf(Target(i), callers[c].ev) # {}]_vars
    /\ \A c \in Callers :
          AfterReopen(c) ~> (~AfterReopen(c) \/ life # "reopened" \/ exited)

\* a call made after Reopen has returned, its line in the file at the path
C10_Witness ==
    /\ life = "reopened"
    /\ logName = LogFile
    /\ \E i \in 1..Len(wrote) :
          /\ wrote[i].ev \in returned
          /\ wrote[i].h = logger
          /\ wrote[i].h > 1
          /\ fs > 0
          /\ LinesOf(inodes[fs], wrote[i].ev) # {}

(***************************************************************************)
(* Configuration: the owner of the lifecycle opens the Logger with and     *)
(* without an application prefix and the NoPID flag, sets the flags, the   *)
(* debug mode and the statistics functions, closes and reopens, while      *)
(* every goroutine logs warnings.                                          *)
(***************************************************************************)
NextConf ==
    \/ \E file \in {DefaultLog, LogFile}, prefix \in {"", stubApp},
          flags \in {NoFlags, NoPID} :
          life \notin {"open", "reopened"} /\ Open(Ctl, file, prefix, flags)
    \/ \E flags \in {NoFlags, NoPID} : SetFlags(Ctl, flags)
    \/ SetDebug(Ctl, TRUE)
    \/ SetStatFuncs(Ctl, TRUE, TRUE)
    \/ Close(Ctl)
    \/ Reopen(Ctl)
    \/ \E c \in Callers : Emit(c, "W")
    \/ \E c \in Callers : EmitReturn(c)
    \/ CloseFile(Ctl)
    \/ ReopenLog(Ctl)
    \/ \E w \in 1..MaxCtl, c \in Callers : RecvMsg(w, c)
    \/ \E w \in 1..MaxCtl : WorkerWrite(w)
    \/ \E w \in 1..MaxCtl : WorkerDone(w)
    \/ \E w \in 1..MaxCtl : StpSend(Ctl, w)
    \/ \E w \in 1..MaxCtl : StpAck(w, Ctl)

SpecConf == Init /\ [][NextConf]_vars

\* a step made while the owner of the lifecycle is in Reopen, its first and
\* its last step included
ReopenStep ==
    \/ callers[Ctl].op = "Reopen" /\ callers[Ctl].pc # "idle"
    \/ callers'[Ctl].op = "Reopen" /\ callers'[Ctl].pc # "idle"

\* C11: from the call of a Reopen that gets past the closed check to its
\* return, the destination path, the original prefix, the line prefix, the
\* flags, the debug flag and both statistics functions do not change, and the
\* writer Reopen opens has the Logger's line prefix and flags.
C11_ReopenPreserves ==
    /\ [][ReopenStep =>
            UNCHANGED <<logName, origPrefix, logPrefix, logFlags, debug,
                        errEventStat, wrnEventStat>>]_vars
    /\ [][ReopenOpens =>
            /\ stdPrefix' = logPrefix /\ stdFlags' = logFlags
            /\ logName # DefaultLog =>
                  /\ handles'[logger'].prefix = logPrefix
                  /\ handles'[logger'].flags = logFlags]_vars

\* a Reopen has returned nil on a Logger in debug mode whose flags hold NoPID
C11_Witness ==
    /\ life = "reopened"
    /\ callers[Ctl].op = "Reopen"
    /\ callers[Ctl].pc = "idle"
    /\ callers[Ctl].ret = Nil
    /\ debug
    /\ NoPID \subseteq logFlags
    /\ logName = LogFile

\* the file the first Open created is still the file at the destination path
FileKept == logName = LogFile /\ fs = 1 /\ Len(inodes) = 1

\* s is an initial part of t
IsPrefix(s, t) == Len(s) <= Len(t) /\ SubSeq(t, 1, Len(s)) = s

\* C12: while the destination file is not removed, whatever Reopen calls are
\* made between and during the level-function calls, the file only grows at
\* its end, it holds one line for every write of a writer goroutine, in the
\* order of the writes, the line of every call that has returned is in it,
\* and the line of a call that returned before another was made comes first.
C12_ReopenAppends ==
    /\ [](FileKept =>
            /\ Len(inodes[1]) = Len(wrote)
            /\ \A i \in 1..Len(wrote) : inodes[1][i].arg = wrote[i].ev
            /\ \A e \in returned : LinesOf(inodes[1], e) # {}
            /\ \A p \in pred :
                  \A i \in LinesOf(inodes[1], p[1]), j \in LinesOf(inodes[1], p[2]) :
                      i < j)
    /\ [][(fs = 1 /\ fs' = 1) => IsPrefix(inodes[1], inodes'[1])]_vars

\* a line written before a Reopen and a line written after it, both in the file
C12_Witness ==
    /\ FileKept
    /\ life = "reopened"
    /\ Len(inodes[1]) = 2
    /\ wrote[1].h # wrote[2].h
    /\ <<wrote[1].ev, wrote[2].ev>> \in pred

\* the write r went to the file now at the destination path
ToCurrent(r) == r.h # 0 /\ handles[r.h].ino = fs

\* a level-function call of c made on an opened Logger has not returned
Pending(c) == callers[c].pc \in {"event", "send", "wait"} /\ callers[c].at # "new"

\* C13: with the Logger open on a file, the Reopen that follows the removal
\* of the file makes a new, empty file at the path and returns nil; a line
\* written to the removed file is written without error and is not in the
\* new file; the new file holds the lines written after its creation, from
\* the first on; and the level-function calls return, the calls made while
\* the file was removed included.
C13_Rotation ==
    /\ [][(ReopenOpens /\ logName = LogFile) =>
            /\ callers'[Ctl].pc = "start"
            /\ fs' > 0
            /\ handles'[logger'].ino = fs'
            /\ fs = 0 => (fs' \notin DOMAIN inodes /\ inodes'[fs'] = <<>>)]_vars
    /\ [][(callers[Ctl].op = "Reopen" /\ callers[Ctl].pc # "idle"
             /\ callers'[Ctl].pc = "idle") => callers'[Ctl].ret = Nil]_vars
    /\ [](\A i \in 1..Len(wrote) :
            wrote[i].gone =>
               /\ wrote[i].ok
               /\ fs > 0 => LinesOf(inodes[fs], wrote[i].ev) = {})
    /\ [](fs > 1 =>
            LET cur == SelectSeq(wrote, ToCurrent) IN
               /\ Len(inodes[fs]) = Len(cur)
               /\ \A i \in 1..Len(cur) : inodes[fs][i].arg = cur[i].ev)
    /\ \A c \in Callers : Pending(c) ~> (callers[c].pc = "idle" \/ exited)

\* the file was removed, a call made meanwhile has returned with its line in
\* the removed file, Reopen has made the file again and a line is in it
C13_Witness ==
    /\ life = "reopened"
    /\ fs = 2
    /\ Len(inodes[2]) = 1
    /\ \E i \in 1..Len(wrote) :
          /\ wrote[i].gone
          /\ wrote[i].ev \in returned
          /\ LinesOf(inodes[1], wrote[i].ev) # {}
          /\ <<wrote[i].ev, inodes[2][1].arg>> \in pred

(***************************************************************************)
(* Failures.  The file of the Logger is closed behind the Logger's back    *)
(* (part_000:579-584), and the destination path is replaced by a path      *)
(* whose directory does not exist (part_000:459).                          *)
(***************************************************************************)
CloseWriter ==
    /\ ~exited
    /\ logger # 0
    /\ handles[logger].open
    /\ handles' = [handles EXCEPT ![logger].open = FALSE]
    /\ UNCHANGED <<lvars, fatalDoExit, stdPrefix, stdFlags, stderr, stderrOpen,
                   fs, inodes, gvars, hvars>>

SetLogName(c) ==
    /\ ~exited
    /\ callers[c].pc = "idle"
    /\ logName = LogFile
    /\ logName' = NxFile
    /\ UNCHANGED <<logger, origPrefix, logPrefix, logFlags, debug, closed, msgCh,
                   stpStrCh, errEventStat, wrnEventStat, evars, gvars, hvars>>

NextFail ==
    \/ \E file \in {LogFile, NxFile} :
          life \notin {"open", "reopened"} /\ Open(Ctl, file, stubApp, NoFlags)
    \/ Close(Ctl)
    \/ Reopen(Ctl)
    \/ CloseWriter
    \/ SetLogName(Ctl)
    \/ \E c \in Callers : Emit(c, "I")
    \/ \E c \in Callers : EmitReturn(c)
    \/ CloseFile(Ctl)
    \/ ReopenLog(Ctl)
    \/ \E w \in 1..MaxCtl, c \in Callers : RecvMsg(w, c)
    \/ \E w \in 1..MaxCtl : WorkerWrite(w)
    \/ \E w \in 1..MaxCtl : WorkerDone(w)
    \/ \E w \in 1..MaxCtl : StpSend(Ctl, w)
    \/ \E w \in 1..MaxCtl : StpAck(w, Ctl)

SpecFail == Init /\ [][NextFail]_vars

\* the owner of the lifecycle makes the call op
Calls(op) ==
    /\ callers[Ctl].pc = "idle"
    /\ callers'[Ctl].nctl = callers[Ctl].nctl + 1
    /\ callers'[Ctl].op = op

\* the owner of the lifecycle, in op, comes to closing a file that is closed
ClosesClosed(op) ==
    /\ callers[Ctl].op = op
    /\ callers[Ctl].pc = "closing"
    /\ callers'[Ctl].pc # "closing"
    /\ logName # DefaultLog
    /\ logger # 0
    /\ ~handles[logger].open

\* C14: a Reopen on a closed Logger returns ErrLogClosed, and a Reopen whose
\* Close finds the file closed returns the FileError of cause 'closed'; either
\* way Reopen opens nothing, and the writer goroutine gets no start signal:
\* it is where the Close step left it.
C14_ReopenCloseFails ==
    /\ [][(Calls("Reopen") /\ closed) =>
            /\ callers'[Ctl].pc = "idle"
            /\ callers'[Ctl].ret = ErrLogClosed
            /\ UNCHANGED <<logger, handles, fs, inodes, closed, workers>>]_vars
    /\ [][ClosesClosed("Reopen") =>
            /\ callers'[Ctl].pc = "idle"
            /\ callers'[Ctl].ret = NewFileError("ErrClosed")
            /\ UNCHANGED <<logger, handles, fs, inodes, workers>>]_vars
    /\ []((/\ callers[Ctl].op = "Reopen"
           /\ callers[Ctl].pc = "idle"
           /\ callers[Ctl].ret = NewFileError("ErrClosed")) =>
              /\ workers[Len(workers)].pc = "parked"
              /\ ~handles[logger].open)

\* a Reopen has failed on a file closed behind the Logger's back
C14_Witness ==
    /\ callers[Ctl].op = "Reopen"
    /\ callers[Ctl].pc = "idle"
    /\ callers[Ctl].ret = NewFileError("ErrClosed")
    /\ Len(handles) = 1
    /\ \E w \in DOMAIN workers : workers[w].pc = "parked"

\* C15: an Open on a path whose directory does not exist returns the
\* FileError that wraps the 'does not exist' error of the open, never nil,
\* and starts no writer goroutine.
C15_OpenFails ==
    [][(Calls("Open") /\ logName' = NxFile) =>
          /\ callers'[Ctl].pc = "idle"
          /\ callers'[Ctl].ret = NewFileError("ErrNotExist")
          /\ callers'[Ctl].ret # Nil
          /\ UNCHANGED <<logger, handles, fs, inodes, workers, closed>>]_vars

\* an Open on a path whose directory does not exist has returned
C15_Witness ==
    /\ callers[Ctl].op = "Open"
    /\ callers[Ctl].pc = "idle"
    /\ logName = NxFile
    /\ callers[Ctl].ret.kind = "FileError"
    /\ callers[Ctl].ret.cause = "ErrNotExist"

\* C16: a Close on an open Logger whose file was closed behind its back does
\* not return at the closed check; it stops the writer goroutine, which has
\* acknowledged and is parked when Close comes to the file, and then returns
\* the FileError of cause 'closed', neither nil nor ErrLogClosed.
C16_CloseFails ==
    /\ [][(Calls("Close") /\ ~closed) =>
            /\ callers'[Ctl].pc = "stop"
            /\ callers'[Ctl].ret = NoRet]_vars
    /\ [][ClosesClosed("Close") =>
            /\ workers[Len(workers)].pc = "parked"
            /\ callers'[Ctl].pc = "idle"
            /\ callers'[Ctl].ret = NewFileError("ErrClosed")
            /\ callers'[Ctl].ret \notin {Nil, ErrLogClosed}]_vars

\* a Close has failed on a file closed behind the Logger's back
C16_Witness ==
    /\ callers[Ctl].op = "Close"
    /\ callers[Ctl].pc = "idle"
    /\ callers[Ctl].ret = NewFileError("ErrClosed")
    /\ ~closed
    /\ \E w \in DOMAIN workers : workers[w].pc = "parked"

\* the owner of the lifecycle, in Reopen, comes to opening a path that
\* cannot be opened
ReopenCannot ==
    /\ callers[Ctl].op = "Reopen"
    /\ callers[Ctl].pc = "reopen"
    /\ callers'[Ctl].pc # "reopen"
    /\ ~CanOpen(logName)

\* C17: a Reopen whose Close step has succeeded, on a path whose directory
\* does not exist, returns the FileError that wraps the 'does not exist'
\* error of the open, and not nil.
C17_ReopenOpenFails ==
    [][ReopenCannot =>
          /\ closed
          /\ callers'[Ctl].pc = "idle"
          /\ callers'[Ctl].ret = NewFileError("ErrNotExist")
          /\ callers'[Ctl].ret # Nil]_vars

\* a Reopen has failed on a path whose directory does not exist
C17_Witness ==
    /\ callers[Ctl].op = "Reopen"
    /\ callers[Ctl].pc = "idle"
    /\ callers[Ctl].ret = NewFileError("ErrNotExist")
    /\ logName = NxFile
    /\ closed

\* the owner of the lifecycle, in Close on the default log, is past the
\* acknowledgement and takes its next step
ClosesDefault ==
    /\ callers[Ctl].op = "Close"
    /\ callers[Ctl].pc = "closing"
    /\ callers'[Ctl].pc # "closing"
    /\ logName = DefaultLog

\* C18: a Close on a Logger opened on the default log sends the stop, and
\* once the writer goroutine has acknowledged and is parked it returns nil
\* and closes nothing; the standard error stream is open at all times, and a
\* line printed on the standard logger is added to it.
C18_DefaultClose ==
    /\ [][(Calls("Close") /\ ~closed /\ logName = DefaultLog) =>
            callers'[Ctl].pc = "stop"]_vars
    /\ [][ClosesDefault =>
            /\ workers[Len(workers)].pc = "parked"
            /\ callers'[Ctl].pc = "idle"
            /\ callers'[Ctl].ret = Nil
            /\ UNCHANGED <<logger, handles, stderrOpen, stderr>>]_vars
    /\ [](stderrOpen)
    /\ [][\A w \in DOMAIN workers :
            (workers[w].pc = "write" /\ workers'[w] # workers[w] /\ logger = 0) =>
                Len(stderr') = Len(stderr) + 1]_vars

\* a Close on the default log has returned nil, and a line was written to
\* the standard error stream before it
C18_Witness ==
    /\ life = "closed"
    /\ logName = DefaultLog
    /\ callers[Ctl].op = "Close"
    /\ callers[Ctl].ret = Nil
    /\ handles = <<>>
    /\ stderrOpen
    /\ Len(stderr) > 0
    /\ \E w \in DOMAIN workers : workers[w].pc = "parked"

\* the goroutine c calls Debug
CallsDebug(c) ==
    /\ callers[c].pc = "idle"
    /\ callers'[c].op = "D"
    /\ callers'[c].nemit = callers[c].nemit + 1

\* the last call of c was a Debug that found the debug flag false
Gated(c) == callers[c].pc = "idle" /\ callers[c].op = "D" /\ callers[c].ev # NoEv

\* the lines of the event e in the standard error stream and in the files
AllLinesOf(e) ==
    LinesOf(stderr, e) \cup UNION {LinesOf(inodes[i], e) : i \in DOMAIN inodes}

\* C19: a Debug call made with the debug flag false returns in the same step,
\* whatever the state of the Logger: it sends nothing to the writer goroutine
\* and no line of it is ever written; a Debug call made with the flag true
\* sends its event on the event channel, and returns only when its line, with
\* the marker <D>, is written.
C19_DebugGating ==
    /\ [][\A c \in Callers :
            CallsDebug(c) =>
               IF debug
                 THEN /\ callers'[c].pc = "send"
                      /\ callers'[c].ch = msgCh
                      /\ callers'[c].kind = "D"
                 ELSE /\ callers'[c].pc = "idle"
                      /\ UNCHANGED <<workers, recvd, wrote, stderr, inodes>>]_vars
    /\ [](\A c \in Callers :
            Gated(c) =>
               /\ callers[c].ev \notin Range(recvd)
               /\ callers[c].ev \notin Written
               /\ AllLinesOf(callers[c].ev) = {})
    /\ [][\A c \in Callers :
            (callers[c].kind = "D" /\ callers[c].pc = "wait" /\ callers'[c].pc = "idle") =>
               \E i \in 1..Len(wrote) :
                  /\ wrote[i].ev = callers[c].ev
                  /\ \E j \in LinesOf(Target(i), callers[c].ev) :
                        Target(i)[j].fmt = Markers["D"]]_vars

\* a Debug call with the debug flag false has done nothing, and another, with
\* the flag true, has its line in the log
C19_Witness ==
    /\ \E c \in Callers : Gated(c)
    /\ \E i \in 1..Len(wrote) :
          /\ wrote[i].ev \in returned
          /\ \E j \in LinesOf(Dest, wrote[i].ev) : Dest[j].fmt = Markers["D"]

\* the line prefix for an application name and a set of flags
Resolved(appName, flags) ==
    IF NoPID \cap flags = {} THEN Str(appName) \o <<"[", Pid, "]", ": ">>
    ELSE IF appName # "" THEN <<appName, ": ">>
    ELSE <<>>

\* C20: once Open or SetFlags has set the flags, the line prefix is the one
\* resolved from the last application name and the last flags; with NoPID in
\* the flags it holds no [pid] segment.
C20_PrefixResolution ==
    logFlags # {} =>
        /\ logPrefix = Resolved(origPrefix, logFlags)
        /\ NoPID \subseteq logFlags => Pid \notin Range(logPrefix)

(***************************************************************************)
(* Flags: the owner of the lifecycle opens the Logger on the file, reads   *)
(* the flags and sets them again with one more bit, or sets them afresh.   *)
(***************************************************************************)
\* Logger.Flags
Flags == logFlags

NextFlags ==
    \/ \E flags \in {NoFlags, Ldate} :
          life \notin {"open", "reopened"} /\ Open(Ctl, LogFile, stubApp, flags)
    \/ \E b \in {NoPID, Ldate, Ltime} : SetFlags(Ctl, Flags \cup b)
    \/ \E flags \in {NoFlags, NoPID} : SetFlags(Ctl, flags)
    \/ Close(Ctl)
    \/ \E c \in Callers : Emit(c, "I")
    \/ \E c \in Callers : EmitReturn(c)
    \/ CloseFile(Ctl)
    \/ ReopenLog(Ctl)
    \/ \E w \in 1..MaxCtl, c \in Callers : RecvMsg(w, c)
    \/ \E w \in 1..MaxCtl : WorkerWrite(w)
    \/ \E w \in 1..MaxCtl : WorkerDone(w)
    \/ \E w \in 1..MaxCtl : StpSend(Ctl, w)
    \/ \E w \in 1..MaxCtl : StpAck(w, Ctl)

SpecFlags == Init /\ [][NextFlags]_vars

\* the bits in which the flag sets f and g differ
Xor(f, g) == (f \ g) \cup (g \ f)

\* C21: from an Open or SetFlags call with the flags f on, Flags() is f with
\* the message-prefix bit added; after an Open with no flags the Logger and
\* its writer have no header bit, and a SetFlags that succeeds gives the
\* writer the same flags; once an Open or SetFlags has set the flags, a
\* SetFlags called with Flags() and one bit more changes that bit of Flags()
\* and no other.
C21_EffectiveFlags ==
    /\ [](callers[Ctl].op \in {"Open", "SetFlags"} =>
            Flags = callers[Ctl].arg \cup Lmsgprefix)
    /\ []((callers[Ctl].op \in {"Open", "SetFlags"} /\ callers[Ctl].pc = "idle"
             /\ callers[Ctl].ret = Nil) =>
            /\ handles[logger].flags = Flags
            /\ callers[Ctl].arg = NoFlags => Flags \cap HeaderBits = {})
    /\ [][(Calls("SetFlags") /\ Lmsgprefix \subseteq Flags
             /\ Flags \subseteq callers'[Ctl].arg
             /\ Cardinality(callers'[Ctl].arg \ Flags) = 1) =>
            Xor(Flags, Flags') = callers'[Ctl].arg \ Flags]_vars

\* a SetFlags has returned nil and the flags hold the NoPID and Ldate bits
C21_Witness ==
    /\ callers[Ctl].op = "SetFlags"
    /\ callers[Ctl].pc = "idle"
    /\ callers[Ctl].ret = Nil
    /\ Flags = Lmsgprefix \cup NoPID \cup Ldate
    /\ life = "reopened"

(***************************************************************************)
(* The tests' use: the exit on a fatal message is turned off before        *)
(* anything else (part_000:29); the Logger is opened once, debug mode and  *)
(* the statistics functions are set, every goroutine calls every level     *)
(* function, and the Logger is closed.                                     *)
(***************************************************************************)
SuppressExit ==
    /\ fatalDoExit
    /\ life = "new"
    /\ \A c \in Callers : callers[c] = NewCaller
    /\ fatalDoExit' = FALSE
    /\ UNCHANGED <<lvars, stdPrefix, stdFlags, stderr, stderrOpen, handles, fs,
                   inodes, gvars, hvars>>

NextStat ==
    \/ SuppressExit
    \/ \E file \in {DefaultLog, LogFile} :
          life = "new" /\ Open(Ctl, file, stubApp, NoFlags)
    \/ SetDebug(Ctl, TRUE)
    \/ SetStatFuncs(Ctl, TRUE, TRUE)
    \/ Close(Ctl)
    \/ \E c \in Callers, k \in Kinds : Emit(c, k)
    \/ \E c \in Callers : writeEvent(c)
    \/ \E c \in Callers : EmitReturn(c)
    \/ CloseFile(Ctl)
    \/ \E w \in 1..MaxCtl, c \in Callers : RecvMsg(w, c)
    \/ \E w \in 1..MaxCtl : WorkerWrite(w)
    \/ \E w \in 1..MaxCtl : WorkerDone(w)
    \/ \E w \in 1..MaxCtl : StpSend(Ctl, w)
    \/ \E w \in 1..MaxCtl : StpAck(w, Ctl)

SpecStat == Init /\ [][NextStat]_vars

\* the level function the goroutine c is in returns after the done signal
Returns(c) == callers[c].pc = "wait" /\ callers'[c].pc = "idle"

\* the call of a statistics function with the caller's format and arguments
HookCall(f, c) == [f |-> f, fmt |-> "", arg |-> callers[c].ev]

\* C22: with both statistics functions set, a Warn call that returns calls
\* the warning function once and an Err call that returns calls the error
\* function once, with the format without marker and the arguments of the
\* call; a Debug or Info call calls neither, and nothing else calls them; no
\* call is counted twice, and the calls are counted in the order they are
\* made, in debug mode or not.
C22_StatHooks ==
    /\ [][\A c \in Callers :
            (Returns(c) /\ wrnEventStat /\ errEventStat) =>
               /\ callers[c].kind = "W" => hooks' = Append(hooks, HookCall("wrn", c))
               /\ callers[c].kind = "E" => hooks' = Append(hooks, HookCall("err", c))
               /\ callers[c].kind \in {"D", "I"} => hooks' = hooks]_vars
    /\ [][hooks' # hooks =>
            \E c \in Callers : Returns(c) /\ callers[c].kind \in {"W", "E"}]_vars
    /\ [](\A i, j \in 1..Len(hooks) : hooks[i].arg = hooks[j].arg => i = j)
    /\ [](\A i, j \in 1..Len(hooks) :
            <<hooks[i].arg, hooks[j].arg>> \in pred => i < j)

\* a warning and an error were counted in debug mode, the one after the other
C22_Witness ==
    /\ debug
    /\ Len(hooks) = 2
    /\ {hooks[1].f, hooks[2].f} = {"wrn", "err"}
    /\ <<hooks[1].arg, hooks[2].arg>> \in pred

\* C23: with the error statistics function set, a Fatal call that returns
\* calls the error function once, with the format without marker and the
\* arguments of the call, as an Err call does.
C23_FatalHook ==
    [][\A c \in Callers :
         (Returns(c) /\ callers[c].kind = "F" /\ errEventStat) =>
            hooks' = Append(hooks, HookCall("err", c))]_vars

\* the lines of the event e in the files other than the one of inode n
ElseLinesOf(e, n) ==
    UNION {LinesOf(inodes[i], e) : i \in DOMAIN inodes \ {n}}

\* C24: when an Err call made on an open Logger returns, its line with the
\* marker <ERR> is once in the log, and, when the log is a file, once on the
\* standard error stream too; when the log is the standard error stream the
\* line is there once, and nowhere else.
C24_ErrDuplication ==
    [][\A c \in Callers :
         (Returns(c) /\ callers[c].kind = "E" /\ callers[c].at \in {"open", "reopened"}) =>
            \E i \in 1..Len(wrote) :
               /\ wrote[i].ev = callers[c].ev
               /\ \A j \in 1..Len(wrote) : wrote[j].ev = callers[c].ev => j = i
               /\ \A j \in LinesOf(stderr, callers[c].ev) :
                     stderr[j].fmt = Markers["E"]
               /\ Cardinality(LinesOf(stderr, callers[c].ev)) = 1
               /\ IF wrote[i].h = 0
                    THEN ElseLinesOf(callers[c].ev, 0) = {}
                    ELSE /\ Cardinality(LinesOf(Target(i), callers[c].ev)) = 1
                         /\ \A j \in LinesOf(Target(i), callers[c].ev) :
                               Target(i)[j].fmt = Markers["E"]
                         /\ ElseLinesOf(callers[c].ev, handles[wrote[i].h].ino) = {}]_vars

\* an Err call on a Logger open on a file has returned, and its line is in
\* the file and on the standard error stream
C24_Witness ==
    \E i \in 1..Len(wrote) :
       /\ wrote[i].ev \in returned
       /\ wrote[i].h # 0
       /\ \E j \in LinesOf(Target(i), wrote[i].ev) : Target(i)[j].fmt = Markers["E"]
       /\ LinesOf(stderr, wrote[i].ev) # {}

\* an Err or Fatal call on a Logger never opened has ended the process
Panicked == \E c \in Callers : callers[c].pc = "panic"

\* the writer goroutine w prints the fatal message it holds
WritesFatal(w) ==
    /\ w \in DOMAIN workers
    /\ workers[w].pc = "write"
    /\ workers[w].msg.fatal
    /\ wrote' # wrote

\* C25: with the exit on a fatal message enabled, the writer goroutine that
\* prints a fatal message ends the process in the same step, and nothing else
\* does on a Logger that was opened; the line with
\* the marker <FATAL> is then once in the log, the event is the last received
\* and the last written, its done signal is never fired and the Fatal call
\* never returns: no step is taken after the exit.
C25_FatalExits ==
    /\ [][\A w \in DOMAIN workers : (WritesFatal(w) /\ fatalDoExit) => exited']_vars
    /\ []((exited /\ ~Panicked) =>
            \E e \in Range(recvd) :
               /\ ExitEv(e)
               /\ recvd[Len(recvd)] = e
               /\ wrote[Len(wrote)].ev = e
               /\ Cardinality({i \in 1..Len(wrote) : wrote[i].ev = e}) = 1
               /\ Cardinality(LinesOf(Target(Len(wrote)), e)) = 1
               /\ \A j \in LinesOf(Target(Len(wrote)), e) :
                     Target(Len(wrote))[j].fmt = Markers["F"]
               /\ e \notin Range(dones)
               /\ e \notin returned
               /\ callers[e.c].pc = "wait" /\ callers[e.c].ev = e)
    /\ [][\A c \in Callers : (callers[c].kind = "F" /\ fatalDoExit) => ~Returns(c)]_vars
    /\ [][exited => UNCHANGED vars]_vars

\* the process has exited on a fatal event while another call waits to send
\* its event
C25_Witness ==
    /\ exited
    /\ \E c \in Callers : callers[c].kind = "F" /\ callers[c].pc = "wait"
    /\ \E c \in Callers : callers[c].pc = "send"

(***************************************************************************)
(* Fatal messages as the tests log them (TestFatal): the exit is turned    *)
(* off, the Logger is opened, fatal messages are logged and the Logger is  *)
(* closed.                                                                 *)
(***************************************************************************)
NextFatal ==
    \/ SuppressExit
    \/ \E file \in {DefaultLog, LogFile} :
          life = "new" /\ Open(Ctl, file, stubApp, NoFlags)
    \/ Close(Ctl)
    \/ \E c \in Callers : Emit(c, "F")
    \/ \E c \in Callers : writeEvent(c)
    \/ \E c \in Callers : EmitReturn(c)
    \/ CloseFile(Ctl)
    \/ \E w \in 1..MaxCtl, c \in Callers : RecvMsg(w, c)
    \/ \E w \in 1..MaxCtl : WorkerWrite(w)
    \/ \E w \in 1..MaxCtl : WorkerDone(w)
    \/ \E w \in 1..MaxCtl : StpSend(Ctl, w)
    \/ \E w \in 1..MaxCtl : StpAck(w, Ctl)

SpecFatal == Init /\ [][NextFatal]_vars /\ Fairness

\* the goroutine c is in a Fatal call made on the open Logger
InFatal(c) == callers[c].kind = "F" /\ callers[c].at = "open"

\* the lifecycle's owner is in a Close call on the open Logger
InClose == callers[Ctl].op = "Close" /\ callers[Ctl].pc # "idle" /\ life = "open"

\* C26: with the exit on a fatal message turned off, a fatal message sent to
\* the writer goroutine does not end the process (the process ends only on a
\* call made before any Open): the writer goroutine prints it and goes on to fire
\* the done signal; when the Fatal call returns its line with the marker
\* <FATAL> is once in the log, the done signal was fired once, and the return
\* leaves the Logger as it was; a Fatal call on the open Logger returns unless
\* the Logger is closed meanwhile, and a Close call on the open Logger
\* returns nil.
C26_FatalSuppressed ==
    /\ [](exited => (fatalDoExit \/ Panicked))
    /\ [][\A w \in DOMAIN workers :
            (WritesFatal(w) /\ ~fatalDoExit) => workers'[w].pc = "done"]_vars
    /\ [][\A c \in Callers :
            (Returns(c) /\ callers[c].kind = "F") =>
               /\ UNCHANGED <<lvars, workers, life, handles>>
               /\ Occ(dones, callers[c].ev) = 1
               /\ \E i \in 1..Len(wrote) :
                     /\ wrote[i].ev = callers[c].ev
                     /\ \A j \in 1..Len(wrote) : wrote[j].ev = callers[c].ev => j = i
                     /\ Cardinality(LinesOf(Target(i), callers[c].ev)) = 1
                     /\ \A j \in LinesOf(Target(i), callers[c].ev) :
                           Target(i)[j].fmt = Markers["F"]]_vars
    /\ \A c \in Callers :
          (InFatal(c) /\ ~fatalDoExit) ~> (~InFatal(c) \/ life # "open")
    /\ (InClose /\ ~fatalDoExit) ~>
          (callers[Ctl].op = "Close" /\ callers[Ctl].pc = "idle" /\ callers[Ctl].ret = Nil)

\* a Fatal call has returned and the Close after it has returned nil
C26_Witness ==
    /\ ~exited
    /\ life = "closed"
    /\ callers[Ctl].op = "Close" /\ callers[Ctl].pc = "idle" /\ callers[Ctl].ret = Nil
    /\ \E i \in 1..Len(wrote) :
          /\ wrote[i].ev \in returned
          /\ \E j \in LinesOf(Target(i), wrote[i].ev) : Target(i)[j].fmt = Markers["F"]

\* C27: on a Logger opened on a file, when a Debug, Info, Warn or Err call
\* returns, the file holds one line of it and no other file holds any: the
\* line is the resolved prefix, then the marker of the level, then the
\* message; once the Logger is closed the file holds one line for each call
\* whose event was written, every call that returned among them, and no
\* other line; a Debug call made with the debug flag false has no line.
C27_LineContent ==
    /\ [][\A c \in Callers :
            (Returns(c) /\ callers[c].kind \in {"D", "I", "W", "E"} /\ logName = LogFile) =>
               /\ fs > 0
               /\ \E j \in 1..Len(inodes[fs]) :
                     /\ LinesOf(inodes[fs], callers[c].ev) = {j}
                     /\ inodes[fs][j] = [hdr |-> logFlags \cap HeaderBits,
                                         pfx |-> logPrefix,
                                         fmt |-> Markers[callers[c].kind],
                                         arg |-> callers[c].ev]
               /\ ElseLinesOf(callers[c].ev, fs) = {}]_vars
    /\ []((logName = LogFile /\ life = "closed") =>
            /\ returned \subseteq Written
            /\ \A e \in Written : Cardinality(LinesOf(Dest, e)) = 1
            /\ \A j \in 1..Len(Dest) : Dest[j].arg \in Written
            /\ Len(Dest) = Cardinality(Written)
            /\ \A c \in Callers : Gated(c) => LinesOf(Dest, callers[c].ev) = {})

\* two calls of different levels have returned and the Logger is closed: the
\* file holds their two lines
C27_Witness ==
    /\ logName = LogFile
    /\ life = "closed"
    /\ Cardinality(returned) = 2
    /\ Len(Dest) = 2
    /\ Dest[1].fmt # Dest[2].fmt
    /\ Dest[1].pfx = <<stubApp, "[", Pid, "]", ": ">>

(***************************************************************************)
(* Close called by several goroutines: the Logger is opened once on a      *)
(* file, every goroutine may call Close, at any time, and logs meanwhile.  *)
(***************************************************************************)
NextClose ==
    \/ life = "new" /\ Open(Ctl, LogFile, stubApp, NoFlags)
    \/ \E c \in Callers : FreeCall /\ Close(c)
    \/ \E c \in Callers : Emit(c, "I")
    \/ \E c \in Callers : EmitReturn(c)
    \/ \E c \in Callers : CloseFile(c)
    \/ \E w \in 1..MaxFree, c \in Callers : RecvMsg(w, c)
    \/ \E w \in 1..MaxFree : WorkerWrite(w)
    \/ \E w \in 1..MaxFree : WorkerDone(w)
    \/ \E w \in 1..MaxFree, c \in Callers : StpSend(c, w)
    \/ \E w \in 1..MaxFree, c \in Callers : StpAck(w, c)
    \/ \E c, d \in Callers : StpCross(c, d)

\* a goroutine that can take a step does take it
FairnessAll ==
    /\ WF_vars(\E w \in 1..MaxFree, c \in Callers : RecvMsg(w, c))
    /\ WF_vars(\E w \in 1..MaxFree : WorkerWrite(w))
    /\ WF_vars(\E w \in 1..MaxFree : WorkerDone(w))
    /\ WF_vars(\E c \in Callers : EmitReturn(c))
    /\ WF_vars(\E c \in Callers : CloseFile(c))
    /\ WF_vars(\E w \in 1..MaxFree, c \in Callers : StpSend(c, w))
    /\ WF_vars(\E w \in 1..MaxFree, c \in Callers : StpAck(w, c))
    /\ WF_vars(\E c, d \in Callers : StpCross(c, d))

SpecClose == Init /\ [][NextClose]_vars /\ FairnessAll

\* the goroutine c is in a Close call
Closing(c) == callers[c].op = "Close" /\ callers[c].pc # "idle"

\* the Logger was opened, the last call of every goroutine was a Close and no
\* Close call is in progress
AllClosed ==
    /\ life # "new"
    /\ \A c \in Callers : callers[c].op = "Close" /\ callers[c].pc = "idle"

\* C28: a Close call that finds the Logger open returns, whatever other
\* Close calls are made meanwhile; and once every goroutine's Close has
\* returned the writer goroutine is parked and the closed flag is true.
C28_ConcurrentClose ==
    /\ \A c \in Callers : (Closing(c) /\ life = "open") ~> ~Closing(c)
    /\ [](AllClosed => (closed /\ Running = {} /\ workers # <<>>))

\* C29: a SetFlags call on a Logger that was never opened panics: the process
\* ends in the step of the call.
C29_SetFlagsBeforeOpen ==
    [][(Calls("SetFlags") /\ life = "new" /\ workers = <<>>) => exited']_vars

\* C30: while the owner of the lifecycle is in no Open, Close, Reopen or
\* SetFlags call, the closed flag is false exactly when a writer goroutine is
\* in its loop, and true exactly when there is no writer goroutine or it is
\* parked; and after a Close that returned nil the closed flag is true.
C30_LifecycleAgreement ==
    /\ callers[Ctl].pc = "idle" => (closed <=> Running = {})
    /\ (callers[Ctl].op = "Close" /\ callers[Ctl].pc = "idle" /\ callers[Ctl].ret = Nil) =>
          closed

\* the writer goroutines that wait on the Logger's current event channel, and
\* those that wait on its current control channel
OnMsgCh == {w \in DOMAIN workers : workers[w].pc = "select" /\ workers[w].mch = msgCh}
OnStpStrCh == {w \in DOMAIN workers : WRecvs(w) /\ workers[w].sch = stpStrCh}

\* C31: whatever calls are made on the Logger, Open while it is open
\* included, at most one writer goroutine waits on the current event channel
\* and at most one on the current control channel; and a writer goroutine
\* waits only on the channels made by the Open that started it (the n-th
\* Open that succeeds makes the n-th channels and starts the n-th writer).
C31_SingleWorker ==
    /\ Cardinality(OnMsgCh) <= 1
    /\ Cardinality(OnStpStrCh) <= 1
    /\ Len(workers) = nChan
    /\ \A w \in DOMAIN workers : workers[w].mch = w /\ workers[w].sch = w

\* the owner of the lifecycle is in a Reopen, between the acknowledgement of
\* its stop and the receipt of its start message
Reopening == callers[Ctl].op = "Reopen" /\ callers[Ctl].pc \in {"closing", "reopen", "start"}

\* the level-function call of c, made on the opened Logger, waits to send its
\* event on the event channel while the writer goroutine is parked
Blocked(c) ==
    /\ callers[c].pc = "send"
    /\ callers[c].ch # 0
    /\ workers # <<>>
    /\ Running = {}

\* C32: while a Reopen has the writer goroutine parked no event is received
\* or written and no done signal is fired: a call that waits to send its event goes
\* on waiting; every write goes to the writer the Logger holds, which is open;
\* when the call returns its line was written once, and a call that was made
\* before the Reopen and is received after it has its line in the file the
\* Reopen opened; and every call that waited with the writer parked returns,
\* unless a fatal message ends the process.
C32_EmitDuringReopen ==
    /\ [][Reopening => UNCHANGED <<recvd, wrote, dones>>]_vars
    /\ [][\A c \in Callers : Blocked(c) => callers'[c].pc = "send"]_vars
    /\ [](\A c \in Callers : Blocked(c) => callers[c].ev \notin Range(recvd))
    /\ [][wrote' # wrote =>
            /\ wrote'[Len(wrote')].h = logger
            /\ wrote'[Len(wrote')].ok
            /\ logger # 0 => logger = Len(handles)]_vars
    /\ [][\A c \in Callers :
            Returns(c) =>
               \E i \in 1..Len(wrote) :
                  /\ wrote[i].ev = callers[c].ev
                  /\ \A j \in 1..Len(wrote) : wrote[j].ev = callers[c].ev => j = i
                  /\ Cardinality(LinesOf(Target(i), callers[c].ev)) = 1]_vars
    /\ \A c \in Callers : Blocked(c) ~> (callers[c].pc = "idle" \/ exited)

\* a call made before a Reopen has waited while the writer goroutine was
\* parked, and its line is written in the file the Reopen opened
C32_Witness ==
    /\ life = "reopened"
    /\ \E c \in Callers :
          /\ callers[c].pc = "wait"
          /\ callers[c].at = "open"
          /\ \E i \in 1..Len(wrote) :
                /\ wrote[i].ev = callers[c].ev
                /\ wrote[i].h = 2
                /\ LinesOf(Target(i), wrote[i].ev) # {}

\* a step assigns the Logger's writer, or opens or closes a file
HandleStep == logger' # logger \/ handles' # handles

Unwritten == Range(recvd) \ Written

\* C34: at any time at most one event is received and not yet written, and
\* the writer goroutine holds it, about to print it; the events are written
\* in the order they are received, each before the next is received; a call
\* whose event is not yet received has not returned, and a call returns only
\* when its event is received and written.
C34_NoBuffering ==
    /\ Cardinality(Unwritten) <= 1
    /\ Len(wrote) <= Len(recvd) /\ Len(recvd) <= Len(wrote) + 1
    /\ \A i \in 1..Len(wrote) : wrote[i].ev = recvd[i]
    /\ \A e \in Unwritten :
          \E w \in DOMAIN workers : workers[w].pc = "write" /\ workers[w].msg.args = e
    /\ \A c \in Callers :
          callers[c].pc \in {"event", "send"} =>
             /\ callers[c].ev \notin Range(recvd)
             /\ callers[c].ev \notin returned
    /\ returned \subseteq Written

\* the writer goroutine holds one event, not yet written, while another call
\* waits to send its event on the event channel
C34_Witness ==
    /\ Cardinality(Unwritten) = 1
    /\ life = "open"
    /\ \E c \in Callers : callers[c].pc = "send" /\ callers[c].ch = msgCh /\ msgCh # 0

\* the goroutine c calls Err or Fatal
CallsErr(c) ==
    /\ callers[c].pc = "idle"
    /\ callers'[c].pc = "event"
    /\ callers'[c].kind \in {"E", "F"}

\* C35: an Err or Fatal call on a Logger whose writer is a file prints its
\* line, with the marker, on the standard logger in the step of the call,
\* before its event is sent: for a call made after the Open, the line is on
\* the standard error stream, once, for as long as the call lasts, whether
\* the event is received or not, with the writer goroutine parked or the
\* Logger closed as well.
C35_DuplicateIndependence ==
    /\ [][\A c \in Callers :
            (CallsErr(c) /\ logger # 0) =>
               stderr' = Append(stderr, [hdr |-> stdFlags \cap HeaderBits,
                                         pfx |-> stdPrefix,
                                         fmt |-> Markers[callers'[c].kind],
                                         arg |-> callers'[c].ev])]_vars
    /\ [](\A c \in Callers :
            (callers[c].kind \in {"E", "F"} /\ callers[c].pc # "idle"
               /\ callers[c].at # "new" /\ logger # 0) =>
               /\ Cardinality(LinesOf(stderr, callers[c].ev)) = 1
               /\ \A j \in LinesOf(stderr, callers[c].ev) :
                     stderr[j].fmt = Markers[callers[c].kind])

\* an Err call made on a closed Logger waits to send its event, never
\* received, and its line is on the standard error stream
C35_Witness ==
    \E c \in Callers :
       /\ callers[c].kind = "E"
       /\ callers[c].pc = "send"
       /\ callers[c].at = "closed"
       /\ closed
       /\ logger # 0
       /\ Running = {}
       /\ callers[c].ev \notin Range(recvd)
       /\ LinesOf(stderr, callers[c].ev) # {}

\* no Open has succeeded on the Logger
NeverOpened == nChan = 0

\* C36: an Open that fails with a FileError on a Logger never opened starts
\* no writer goroutine and makes no channel: the event channel and the
\* control channel stay nil, no writer is assigned, the closed flag stays
\* true; and the Close that follows returns ErrLogClosed at once.
C36_FailedOpen ==
    /\ [][(Calls("Open") /\ NeverOpened /\ callers'[Ctl].ret.kind = "FileError") =>
            /\ callers'[Ctl].pc = "idle"
            /\ workers' = <<>>
            /\ nChan' = 0 /\ msgCh' = 0 /\ stpStrCh' = 0
            /\ logger' = 0 /\ handles' = <<>>
            /\ closed']_vars
    /\ [][(Calls("Close") /\ NeverOpened /\ callers[Ctl].op = "Open") =>
            /\ callers[Ctl].ret.kind = "FileError"
            /\ callers'[Ctl].pc = "idle"
            /\ callers'[Ctl].ret = ErrLogClosed]_vars

\* the Open of a never-opened Logger has failed and the Close after it has
\* returned ErrLogClosed
C36_Witness ==
    /\ NeverOpened
    /\ logName = NxFile
    /\ callers[Ctl].op = "Close"
    /\ callers[Ctl].pc = "idle"
    /\ callers[Ctl].ret = ErrLogClosed
    /\ callers[Ctl].nctl = 2
    /\ workers = <<>> /\ closed

\* the Logger is closed and its last Reopen has not opened the log again
ReopenFailed == life = "failed" /\ closed

\* C37: a Reopen whose Close step has succeeded and whose open step fails
\* returns with the closed flag true, the file it has closed still the
\* Logger's writer, and the writer goroutine parked: no start message is
\* sent; as long as no Open succeeds, a Close or a Reopen returns
\* ErrLogClosed at once, nothing is received from the event channel and
\* nothing is written, so that a level-function call does not return.
C37_FailedReopen ==
    /\ [][ReopenCannot =>
            /\ callers'[Ctl].pc = "idle"
            /\ closed'
            /\ logger' = logger /\ ~handles'[logger'].open
            /\ workers' = workers
            /\ Running = {}
            /\ ReopenFailed']_vars
    /\ []((ReopenFailed /\ callers[Ctl].pc = "idle") =>
            /\ Running = {}
            /\ logger # 0 => ~handles[logger].open)
    /\ [][((Calls("Close") \/ Calls("Reopen")) /\ ReopenFailed) =>
            /\ callers'[Ctl].pc = "idle"
            /\ callers'[Ctl].ret = ErrLogClosed
            /\ ReopenFailed']_vars
    /\ [][ReopenFailed => UNCHANGED <<recvd, wrote, dones>>]_vars

\* a Reopen has failed to open the log, the Close after it has returned
\* ErrLogClosed and a level-function call made meanwhile waits to send
C37_Witness ==
    /\ ReopenFailed
    /\ logName = NxFile
    /\ callers[Ctl].op = "Close"
    /\ callers[Ctl].pc = "idle"
    /\ callers[Ctl].ret = ErrLogClosed
    /\ callers[Ctl].nctl = 3
    /\ ~handles[logger].open
    /\ \E c \in Callers : callers[c].pc = "send" /\ callers[c].at = "failed"

\* C38: the closed flag becomes true only in the step of a Close that is past
\* the acknowledgement and closes the file, which was open; a Close that
\* finds the file closed returns the FileError with the closed flag false as
\* before, and the flag stays false, the writer goroutine parked, with no
\* start message, until the next call of the lifecycle's owner.
C38_FailedClose ==
    /\ [][(closed' /\ ~closed) =>
            /\ callers[Ctl].pc = "closing"
            /\ IF logger = 0 THEN stderrOpen /\ ~stderrOpen'
                             ELSE handles[logger].open /\ ~handles'[logger].open]_vars
    /\ [][ClosesClosed("Close") =>
            /\ ~closed /\ ~closed'
            /\ callers'[Ctl].ret.kind = "FileError"
            /\ workers' = workers
            /\ workers # <<>> /\ Running = {}]_vars
    /\ []((callers[Ctl].op = "Close" /\ callers[Ctl].pc = "idle"
            /\ callers[Ctl].ret.kind = "FileError") =>
            /\ ~closed
            /\ workers # <<>> /\ Running = {})

\* a Close has failed on a file closed behind the Logger's back: the closed
\* flag is false, and a level-function call made afterwards waits to send
\* its event to the parked writer goroutine
C38_Witness ==
    /\ callers[Ctl].op = "Close"
    /\ callers[Ctl].pc = "idle"
    /\ callers[Ctl].ret.kind = "FileError"
    /\ ~closed
    /\ Running = {}
    /\ \E c \in Callers : callers[c].pc = "send" /\ callers[c].ch = msgCh /\ msgCh # 0
    /\ wrote # <<>>

\* C39: a statistics function is called in a step of the goroutine that made
\* the Warn or Err call, the step in which the call returns from writeEvent:
\* by then the writer goroutine has received the event, printed its line,
\* with the marker of the level, and fired its done signal; no step of a
\* writer goroutine calls a statistics function.
C39_HookAfterWrite ==
    /\ [][hooks' # hooks =>
            /\ workers' = workers
            /\ \E c \in Callers :
                  /\ Returns(c)
                  /\ hooks' = Append(hooks, hooks'[Len(hooks')])
                  /\ hooks'[Len(hooks')].arg = callers[c].ev
                  /\ callers[c].ev \in Range(dones)
                  /\ \E i \in 1..Len(wrote) :
                        /\ wrote[i].ev = callers[c].ev
                        /\ \E j \in LinesOf(Target(i), callers[c].ev) :
                              Target(i)[j].fmt = Markers[callers[c].kind]]_vars
    /\ [](\A i \in 1..Len(hooks) :
            hooks[i].arg \in Written /\ hooks[i].arg \in Range(dones))

\* the warning function was called, once, for a call whose line is written
C39_Witness ==
    /\ Len(hooks) = 1
    /\ hooks[1].f = "wrn"
    /\ hooks[1].arg \in Written
    /\ \A c \in Callers : callers[c].pc = "idle"

(***************************************************************************)
(* SetFlags on a Logger whose log cannot be closed or opened again: the    *)
(* file is closed, or the destination path replaced, behind the Logger's   *)
(* back, as the tests of the failures of Reopen do.                        *)
(***************************************************************************)
NextSetFlags ==
    \/ life \notin {"open", "reopened"} /\ Open(Ctl, LogFile, stubApp, NoFlags)
    \/ \E flags \in {NoPID, Ldate} : SetFlags(Ctl, flags)
    \/ Close(Ctl)
    \/ CloseWriter
    \/ SetLogName(Ctl)
    \/ \E c \in Callers : Emit(c, "I")
    \/ \E c \in Callers : EmitReturn(c)
    \/ CloseFile(Ctl)
    \/ ReopenLog(Ctl)
    \/ \E w \in 1..MaxCtl, c \in Callers : RecvMsg(w, c)
    \/ \E w \in 1..MaxCtl : WorkerWrite(w)
    \/ \E w \in 1..MaxCtl : WorkerDone(w)
    \/ \E w \in 1..MaxCtl : StpSend(Ctl, w)
    \/ \E w \in 1..MaxCtl : StpAck(w, Ctl)

SpecSetFlags == Init /\ [][NextSetFlags]_vars

\* the step in which the SetFlags of the lifecycle's owner returns an error
SetFlagsFails ==
    /\ callers'[Ctl].op = "SetFlags"
    /\ callers'[Ctl] # callers[Ctl]
    /\ callers'[Ctl].pc = "idle"
    /\ callers'[Ctl].ret # Nil

\* the prefix and flags of the Logger's writer and of the standard logger
Formats == <<stdPrefix, stdFlags,
             [h \in DOMAIN handles |-> <<handles[h].prefix, handles[h].flags>>]>>

\* C40: SetFlags stores the flags, with the bit always set, and the line
\* prefix made of them in the step of its call, before the closed check and
\* the Reopen, and gives neither to a writer in that step; a SetFlags that
\* returns an error does so at the closed check (ErrLogClosed), at the close
\* of the file or at its opening (FileError), and never after openLog has
\* succeeded, the only step of a SetFlags that gives a prefix and flags to
\* the Logger's writer and to the standard logger: when SetFlags has failed,
\* Flags() is the new flags and the writers print as they did before.
C40_SetFlagsFailure ==
    /\ [][Calls("SetFlags") =>
            /\ Flags' = callers'[Ctl].arg \cup Lmsgprefix
            /\ logPrefix' = setFlags(origPrefix, callers'[Ctl].arg, logPrefix).logPrefix
            /\ origPrefix' = origPrefix
            /\ UNCHANGED <<logger, Formats>>]_vars
    /\ [][SetFlagsFails =>
            /\ callers[Ctl].pc \in {"idle", "closing", "reopen"}
            /\ callers'[Ctl].ret \in {ErrLogClosed, NewFileError("ErrClosed"),
                                      NewFileError("ErrNotExist")}
            /\ Flags' = callers'[Ctl].arg \cup Lmsgprefix
            /\ UNCHANGED <<logger, Formats>>]_vars
    /\ [][(callers'[Ctl].op = "SetFlags" /\ Formats' # Formats) =>
            /\ callers[Ctl].pc = "reopen"
            /\ callers'[Ctl].pc = "start"]_vars
    /\ []((callers[Ctl].op = "SetFlags" /\ callers[Ctl].pc = "idle"
             /\ callers[Ctl].ret # Nil) =>
            Flags = callers[Ctl].arg \cup Lmsgprefix)

\* a SetFlags with NoPID has failed with a FileError on a Logger opened
\* without flags: Flags() has NoPID, the writers have not
C40_Witness ==
    /\ callers[Ctl].op = "SetFlags"
    /\ callers[Ctl].pc = "idle"
    /\ callers[Ctl].ret.kind = "FileError"
    /\ Flags = NoPID \cup Lmsgprefix
    /\ stdFlags = Lmsgprefix
    /\ logger # 0
    /\ handles[logger].flags = Lmsgprefix
    /\ handles[logger].prefix # logPrefix

====
